---- MODULE Spec2Model ----
(***************************************************************************)
(* PersonaKit: the outbox work queue (OutboxTaskRepository), the           *)
(* background worker's poll loop (BackgroundWorker) and the trait merge    *)
(* (ObservationProcessor / MindscapeRepository).                           *)
(*                                                                         *)
(* Time.  Instants are seconds measured from the present: now is 0, an     *)
(* instant in the future is positive, and every instant that has passed    *)
(* is kept as 0 (the code only ever compares run_after with now).  Tick    *)
(* lets TickSeconds pass, which moves every stored instant TickSeconds     *)
(* closer.  created_at, which only orders the rows, is kept as the row's   *)
(* rank in creation order.  An error message is modelled by its length.    *)
(***************************************************************************)
EXTENDS Integers, Sequences, FiniteSets, TLC

\* ---------------------------------------------------------------- bounds
NumWorkers == 2
MaxTasks == 2
\* application instances that are shut down (and started again) in LifeSpec
NumStoppable == 1
\* failures recorded on one row by direct mark_failed calls (RepoSpec)
MaxMarks == 4
\* observation processors working on one person at once (MergeSpec)
NumProcs == 2
\* writes of that person's mindscape (MergeSpec)
MaxMerges == 3
\* observations processed without a trait extracted (MergeSpec)
MaxSkips == 1
\* feedback rows submitted for one person (FeedbackSpec)
MaxFeedback == 5
\* rules of a mapper configuration
MaxRules == 2
\* suggestions handed to the overlay
MaxSuggestions == 6

\* personas generated
MaxPersonas == 1

\* commits of the weight adjuster
MaxAdjusts == 2

\* versions of one mapper configuration (MapperSpec)
MaxVersions == 2

\* create_observation calls (ObservationSpec)
MaxRequests == 3

\* ------------------------------------------------------ program constants
MaxAttempts == 3
RetryBase == 60
RetryCap == 3600
ErrorLimit == 500
\* FeedbackProcessor; weights and adjustments are in thousandths
NEGATIVE_FEEDBACK_THRESHOLD == 5
NEGATIVE_ADJUSTMENT == -200
POSITIVE_ADJUSTMENT == 100
MAX_NEGATIVE_CHANGE == 500
MAX_POSITIVE_WEIGHT == 2000
\* the trailing window of negative feedback, in days
NegativeWindowDays == 7
RATE_LIMIT_MAX == 10
RATE_LIMIT_WINDOW == 24
\* sorted_suggestions[:5]
TopSuggestions == 5

\* persona time to live, in hours: the default and the bounds of an override
DefaultTtlHours == 24
TtlMin == 1
TtlMax == 168

\* asyncio.wait_for(worker_task, timeout=10.0)
ShutdownTimeout == 10

\* datetime.now(UTC): the origin of the time axis
now == 0
\* None / NULL
Null == -1

TickSeconds == RetryBase

Min(a, b) == IF a <= b THEN a ELSE b
Max(a, b) == IF a >= b THEN a ELSE b

Workers == 1..NumWorkers
Stoppable == 1..Min(NumStoppable, NumWorkers)
TaskIds == 1..MaxTasks
\* lengths of the error messages str(e): one that fits last_error, one that does not
LongErr == ErrorLimit + 1
ErrLens == {21, LongErr}

VARIABLES
    queue,        \* the outbox_tasks table: task id -> row ("none": no row yet)
    locked,       \* row locks taken by SELECT ... FOR UPDATE: task id -> worker
    pc,           \* each worker's position in start() / _process_next_task()
    held,         \* the task object dequeue_next returned to the worker
    wattempts,    \* task.attempts as loaded on the worker's task object
    is_running,   \* BackgroundWorker.is_running
    shutdown,     \* the process's shutdown_event
    delays        \* history: the retry_delay the worker computed at each failure

qvars == <<queue, locked, pc, held, wattempts, is_running, shutdown, delays>>

\* One person's mindscape row and the observation processors working on it.
\*   mindscape       the row: exists, version, traits (path -> trait)
\*   proc_pc         where each processor is in process_observation
\*   new_traits      the traits it extracted
\*   current_traits  the document it read and merged, to be written
\*   readv           the version of the document it read (0: no row)
\*   skipped         history: observations processed without a write
\*   merges          history: the number of committed writes of the row
\*   commits         history: the last two committed writes of the row
VARIABLES mindscape, proc_pc, new_traits, current_traits, readv, skipped, merges, commits
mvars == <<mindscape, proc_pc, new_traits, current_traits, readv, skipped, merges, commits>>

\* The feedback table of that person's personas.
\*   negatives   the rows the negative-feedback query selects on rating and
\*               helpful, as a bag: row -> how many
\*   submitted   the number of rows created
VARIABLES negatives, submitted
fvars == <<negatives, submitted>>

\* what the queue operations leave alone, and what the merge operations do
\* the feedback endpoint's rate limit: _rate_limit_store (person -> instants
\* of the recorded calls, in hours relative to now), the status of the last
\* call, and the history of the calls that were let through less than a window
\* ago
VARIABLES rate_limit_store, response, accepted
rvars == <<rate_limit_store, response, accepted>>

\* the rule engine: its attributes _last_matched_narratives and
\* _narrative_cache, the configuration of the last evaluate_rules call, the
\* list it returned, the positions of the rules whose error it logged and of
\* those it logged "Template ... not found" for, and as history the position
\* of the rule each suggestion of the list comes from; and the hour of the
\* context's current_time
VARIABLES
    last_matched_narratives, narrative_cache, config, suggestions, errors, not_found,
    origin, current_hour
evars ==
    <<last_matched_narratives, narrative_cache, config, suggestions, errors, not_found,
      origin, current_hour>>

\* the persona generator: the suggestions of the contextual overlay it built
VARIABLES overlay

\* the personas table: the clock in minutes, the stored rows, the mapper
\* configuration's metadata.default_ttl_hours, and the last answer of the API
VARIABLES clock, personas, default_ttl_hours, persona_response
pvars == <<clock, personas, default_ttl_hours, persona_response>>

\* the application shutting down: the seconds lifespan has waited for the
\* worker task since stop(), and as history each worker's position when its
\* shutdown event was set
VARIABLES waited, at_shutdown
svars == <<waited, at_shutdown>>

\* _adjust_trait_weights in two steps: where it is, the Mindscape object it
\* holds in memory, and the number of its commits
VARIABLES adjust_pc, adjust_row, adjusts
avars == <<adjust_pc, adjust_row, adjusts>>

\* the mapper_configs table, the status of the last answer of the mappers
\* API, and what persona generation's lookup of the active configuration met
VARIABLES mappers, mapper_response, lookup
cvars == <<mappers, mapper_response, lookup>>

\* the observations table, the observation ids in the payloads of the
\* process_observation tasks, and each create_observation call's position
VARIABLES observations, outbox, obs_pc
ovars == <<observations, outbox, obs_pc>>

late == <<cvars, ovars>>
more == <<pvars, svars, avars, late>>
others == <<rvars, evars, overlay, more>>
nonqueue == <<mvars, fvars, others>>
nonmerge == <<qvars, fvars, others>>
nonfeedback ==
    <<qvars, proc_pc, new_traits, current_traits, readv, skipped, merges, commits, others>>
nonrate == <<qvars, mvars, fvars, evars, overlay, more>>
nonengine == <<qvars, mvars, fvars, rvars, overlay, more>>
nonpersona == <<qvars, mvars, fvars, rvars, evars, overlay, svars, avars, late>>
nonshutdown == <<mvars, fvars, rvars, evars, overlay, pvars, avars, late>>
nonwriters == <<qvars, fvars, rvars, evars, overlay, pvars, svars, late>>
nonmapper == <<qvars, mvars, fvars, rvars, evars, overlay, pvars, svars, avars, ovars>>
nonobservation == <<qvars, mvars, fvars, rvars, evars, overlay, pvars, svars, avars, cvars>>
nonoverlay ==
    <<qvars, mvars, fvars, rvars, last_matched_narratives, narrative_cache, config,
      errors, not_found, origin, current_hour, more>>

vars == <<qvars, mvars, fvars, others>>

RECURSIVE Pow2(_)
Pow2(n) == IF n = 0 THEN 1 ELSE 2 * Pow2(n - 1)

\* an instant after TickSeconds have passed
Shift(instant) == IF instant = Null THEN Null ELSE Max(instant - TickSeconds, now)

\* ------------------------------------------------------------- the table
NoRow ==
    [status |-> "none", attempts |-> 0, run_after |-> Null,
     created_at |-> Null, completed_at |-> Null, last_error |-> Null]

Exists(t) == queue[t].status # "none"

\* OutboxTask(task_type, payload, run_after=run_after or now) with the column
\* defaults; created_at = now is later than every earlier row's
NewRow(run_after) ==
    [status |-> "pending", attempts |-> 0,
     run_after |-> IF run_after = Null THEN now ELSE run_after,
     created_at |-> Cardinality({t \in TaskIds : Exists(t)}) + 1,
     completed_at |-> Null, last_error |-> Null]

\* Claimable without FOR UPDATE SKIP LOCKED: a row another transaction has
\* selected and not yet committed is returned again
ClaimableNoLock(t) ==
    /\ queue[t].status = "pending"
    /\ queue[t].run_after <= now

\* Claimable with a reclaim of rows left in_progress
ClaimableOrStale(t) ==
    /\ queue[t].status \in {"pending", "in_progress"}
    /\ queue[t].run_after <= now
    /\ locked[t] = Null

\* the WHERE clause of dequeue_next, on a row no other transaction has locked
Claimable(t) ==
    /\ queue[t].status = "pending"
    /\ queue[t].run_after <= now
    /\ locked[t] = Null

\* FirstClaimable without the ORDER BY
FirstClaimableAny(t) == Claimable(t)

\* ORDER BY created_at LIMIT 1 over the claimable rows
FirstClaimable(t) ==
    /\ Claimable(t)
    /\ \A u \in TaskIds : Claimable(u) => queue[t].created_at <= queue[u].created_at

\* RetryDelay without the exponent
RetryDelayFlat(attempts) == Min(RetryBase, RetryCap)

\* retry_delay = min(60 * (2 ** task.attempts), 3600)
RetryDelay(attempts) == Min(RetryBase * Pow2(attempts), RetryCap)

\* error[:500]
Truncate(len) == Min(len, ErrorLimit)

\* FailedRow with attempts <= 3 for attempts < 3
FailedRowOffByOne(row, errlen, retry_after) ==
    LET n == row.attempts + 1 IN
    IF n <= MaxAttempts /\ retry_after # Null
    THEN [row EXCEPT !.attempts = n, !.last_error = Truncate(errlen),
                     !.status = "pending", !.run_after = retry_after]
    ELSE [row EXCEPT !.attempts = n, !.last_error = Truncate(errlen),
                     !.status = "failed"]

\* the row mark_failed writes; retry_after = Null stands for None
FailedRow(row, errlen, retry_after) ==
    LET n == row.attempts + 1 IN
    IF n < MaxAttempts /\ retry_after # Null
    THEN [row EXCEPT !.attempts = n, !.last_error = Truncate(errlen),
                     !.status = "pending", !.run_after = retry_after]
    ELSE [row EXCEPT !.attempts = n, !.last_error = Truncate(errlen),
                     !.status = "failed"]

\* the row mark_completed writes
CompletedRow(row) ==
    [row EXCEPT !.status = "done", !.completed_at = now]

\* ------------------------------------------------------------------ Init
QueueInit ==
    /\ queue = [t \in TaskIds |-> NoRow]
    /\ locked = [t \in TaskIds |-> Null]
    /\ pc = [w \in Workers |-> "init"]
    /\ held = [w \in Workers |-> Null]
    /\ wattempts = [w \in Workers |-> 0]
    /\ is_running = [w \in Workers |-> FALSE]
    /\ shutdown = [w \in Workers |-> FALSE]
    /\ delays = [t \in TaskIds |-> << >>]

\* --------------------------------------------------------------- actions
\* TickSeconds pass
Tick ==
    /\ queue' = [t \in TaskIds |->
                    [queue[t] EXCEPT !.run_after = Shift(@),
                                     !.completed_at = Shift(@)]]
    /\ UNCHANGED <<locked, pc, held, wattempts, is_running, shutdown, delays, nonqueue>>

\* create_observation -> OutboxTaskRepository.enqueue(task_type, payload)
Enqueue ==
    /\ \E t \in TaskIds :
        /\ ~Exists(t)
        /\ \A u \in TaskIds : u < t => Exists(u)
        /\ queue' = [queue EXCEPT ![t] = NewRow(Null)]
    /\ UNCHANGED <<locked, pc, held, wattempts, is_running, shutdown, delays, nonqueue>>

\* BackgroundWorker.start: is_running = True, enter the loop
Start(w) ==
    /\ pc[w] = "init"
    /\ is_running' = [is_running EXCEPT ![w] = TRUE]
    /\ pc' = [pc EXCEPT ![w] = "poll"]
    /\ UNCHANGED <<queue, locked, held, wattempts, shutdown, delays, nonqueue>>

\* the loop condition fails: leave the loop, finally: is_running = False
LoopExit(w) ==
    /\ pc[w] = "poll"
    /\ ~(is_running[w] /\ ~shutdown[w])
    /\ pc' = [pc EXCEPT ![w] = "stopped"]
    /\ is_running' = [is_running EXCEPT ![w] = FALSE]
    /\ UNCHANGED <<queue, locked, held, wattempts, shutdown, delays, nonqueue>>

\* dequeue_next: the SELECT ... FOR UPDATE SKIP LOCKED returns a row and locks it
DequeueSelect(w) ==
    /\ pc[w] = "poll"
    /\ is_running[w] /\ ~shutdown[w]
    /\ \E t \in TaskIds :
        /\ FirstClaimable(t)
        /\ locked' = [locked EXCEPT ![t] = w]
        /\ held' = [held EXCEPT ![w] = t]
    /\ pc' = [pc EXCEPT ![w] = "claim"]
    /\ UNCHANGED <<queue, wattempts, is_running, shutdown, delays, nonqueue>>

\* dequeue_next returns None: _process_next_task returns, the loop waits
DequeueNone(w) ==
    /\ pc[w] = "poll"
    /\ is_running[w] /\ ~shutdown[w]
    /\ ~\E t \in TaskIds : FirstClaimable(t)
    /\ pc' = [pc EXCEPT ![w] = "wait"]
    /\ UNCHANGED <<queue, locked, held, wattempts, is_running, shutdown, delays, nonqueue>>

\* dequeue_next: status = in_progress, commit (the lock is released), refresh
DequeueCommit(w) ==
    /\ pc[w] = "claim"
    /\ queue' = [queue EXCEPT ![held[w]].status = "in_progress"]
    /\ locked' = [locked EXCEPT ![held[w]] = Null]
    /\ wattempts' = [wattempts EXCEPT ![w] = queue[held[w]].attempts]
    /\ pc' = [pc EXCEPT ![w] = "process"]
    /\ UNCHANGED <<held, is_running, shutdown, delays, nonqueue>>

\* the try block ends without an exception: mark_completed(task_id)
ProcessCompleted(w) ==
    /\ pc[w] = "process"
    /\ queue' = [queue EXCEPT ![held[w]] = CompletedRow(@)]
    /\ held' = [held EXCEPT ![w] = Null]
    /\ wattempts' = [wattempts EXCEPT ![w] = 0]
    /\ pc' = [pc EXCEPT ![w] = "wait"]
    /\ UNCHANGED <<locked, is_running, shutdown, delays, nonqueue>>

\* the try block raises: retry_delay from the task object's attempts,
\* mark_failed(task_id, str(e), now + retry_delay)
ProcessFailed(w, errs) ==
    /\ pc[w] = "process"
    /\ \E errlen \in errs :
        queue' = [queue EXCEPT ![held[w]] =
                    FailedRow(@, errlen, now + RetryDelay(wattempts[w]))]
    /\ delays' = [delays EXCEPT ![held[w]] = Append(@, RetryDelay(wattempts[w]))]
    /\ held' = [held EXCEPT ![w] = Null]
    /\ wattempts' = [wattempts EXCEPT ![w] = 0]
    /\ pc' = [pc EXCEPT ![w] = "wait"]
    /\ UNCHANGED <<locked, is_running, shutdown, nonqueue>>

\* the try block raises and mark_failed raises too (the store is unreachable,
\* the session needs a rollback): the exception leaves _process_next_task and
\* the while loop of start(), whose except/finally set is_running = False
MarkFailedRaises(w) ==
    /\ pc[w] = "process"
    /\ held' = [held EXCEPT ![w] = Null]
    /\ wattempts' = [wattempts EXCEPT ![w] = 0]
    /\ pc' = [pc EXCEPT ![w] = "stopped"]
    /\ is_running' = [is_running EXCEPT ![w] = FALSE]
    /\ UNCHANGED <<queue, locked, shutdown, delays, nonqueue>>

\* wait_for(shutdown_event.wait(), 5.0) times out: next iteration
WaitTimeout(w) ==
    /\ pc[w] = "wait"
    /\ ~shutdown[w]
    /\ pc' = [pc EXCEPT ![w] = "poll"]
    /\ UNCHANGED <<queue, locked, held, wattempts, is_running, shutdown, delays, nonqueue>>

\* wait_for returns: break, finally: is_running = False
WaitShutdown(w) ==
    /\ pc[w] = "wait"
    /\ shutdown[w]
    /\ pc' = [pc EXCEPT ![w] = "stopped"]
    /\ is_running' = [is_running EXCEPT ![w] = FALSE]
    /\ UNCHANGED <<queue, locked, held, wattempts, shutdown, delays, nonqueue>>

\* signal_handler: shutdown_event.set()
SignalHandler(w) ==
    /\ pc[w] \notin {"init", "stopped"}
    /\ ~shutdown[w]
    /\ shutdown' = [shutdown EXCEPT ![w] = TRUE]
    /\ UNCHANGED <<queue, locked, pc, held, wattempts, is_running, delays, nonqueue>>

\* lifespan shutdown: background_worker.stop()
Stop(w) ==
    /\ pc[w] \notin {"init", "stopped"}
    /\ is_running[w]
    /\ is_running' = [is_running EXCEPT ![w] = FALSE]
    /\ shutdown' = [shutdown EXCEPT ![w] = TRUE]
    /\ UNCHANGED <<queue, locked, pc, held, wattempts, delays, nonqueue>>

\* lifespan shutdown: wait_for(worker_task, 10.0) times out, worker_task.cancel().
\* CancelledError is no Exception: no handler of the worker runs but the
\* session's exit (an uncommitted claim is rolled back and its lock released)
\* and finally: is_running = False
Cancel(w) ==
    /\ pc[w] \in {"claim", "process"}
    /\ shutdown[w] /\ ~is_running[w]
    /\ locked' = [t \in TaskIds |-> IF locked[t] = w THEN Null ELSE locked[t]]
    /\ held' = [held EXCEPT ![w] = Null]
    /\ wattempts' = [wattempts EXCEPT ![w] = 0]
    /\ pc' = [pc EXCEPT ![w] = "stopped"]
    /\ UNCHANGED <<queue, is_running, shutdown, delays, nonqueue>>

\* the application is started again: a new BackgroundWorker and shutdown_event
Restart(w) ==
    /\ pc[w] = "stopped"
    /\ pc' = [pc EXCEPT ![w] = "init"]
    /\ shutdown' = [shutdown EXCEPT ![w] = FALSE]
    /\ UNCHANGED <<queue, locked, held, wattempts, is_running, delays, nonqueue>>

\* one step of start() / _process_next_task() while no shutdown is requested;
\* errs: the lengths of the error messages a failing task may raise
Operate(w, errs) ==
    \/ Start(w)
    \/ DequeueSelect(w)
    \/ DequeueNone(w)
    \/ DequeueCommit(w)
    \/ ProcessCompleted(w)
    \/ ProcessFailed(w, errs)
    \/ MarkFailedRaises(w)
    \/ WaitTimeout(w)

\* ------------------------------------------------------ graceful shutdown
\* start() and _process_next_task() step by step where a signal can arrive:
\* the handler installed with signal.signal runs between two bytecodes of the
\* main thread, so also between the loop condition and the dequeue_next call.

ShutdownIdle ==
    /\ waited = [w \in Workers |-> 0]
    /\ at_shutdown = [w \in Workers |-> ""]

LoopEnterAnyway(w) ==
    /\ pc[w] = "poll"
    /\ is_running[w]
    /\ pc' = [pc EXCEPT ![w] = "enter"]
    /\ UNCHANGED <<queue, locked, held, wattempts, is_running, shutdown, delays, nonqueue>>

\* while self.is_running and not self.shutdown_event.is_set(): the condition
\* holds, _process_next_task is entered
LoopEnter(w) ==
    /\ pc[w] = "poll"
    /\ is_running[w] /\ ~shutdown[w]
    /\ pc' = [pc EXCEPT ![w] = "enter"]
    /\ UNCHANGED <<queue, locked, held, wattempts, is_running, shutdown, delays, nonqueue>>

\* _process_next_task: await outbox_repo.dequeue_next(), the call is made
DequeueCall(w) ==
    /\ pc[w] = "enter"
    /\ pc' = [pc EXCEPT ![w] = "dequeue"]
    /\ UNCHANGED <<queue, locked, held, wattempts, is_running, shutdown, delays, nonqueue>>

\* the dequeue_next called in the iteration entered selects and locks a row
EnteredSelect(w) ==
    /\ pc[w] = "dequeue"
    /\ \E t \in TaskIds :
        /\ FirstClaimable(t)
        /\ locked' = [locked EXCEPT ![t] = w]
        /\ held' = [held EXCEPT ![w] = t]
    /\ pc' = [pc EXCEPT ![w] = "claim"]
    /\ UNCHANGED <<queue, wattempts, is_running, shutdown, delays, nonqueue>>

\* the dequeue_next called in the iteration entered returns None
EnteredNone(w) ==
    /\ pc[w] = "dequeue"
    /\ ~\E t \in TaskIds : FirstClaimable(t)
    /\ pc' = [pc EXCEPT ![w] = "wait"]
    /\ UNCHANGED <<queue, locked, held, wattempts, is_running, shutdown, delays, nonqueue>>

\* signal_handler: shutdown_event.set(), wherever the worker is
ShutdownSignal(w) ==
    /\ pc[w] \notin {"init", "stopped"}
    /\ ~shutdown[w]
    /\ shutdown' = [shutdown EXCEPT ![w] = TRUE]
    /\ at_shutdown' = [at_shutdown EXCEPT ![w] = pc[w]]
    /\ UNCHANGED <<queue, locked, pc, held, wattempts, is_running, delays, waited,
                   nonshutdown>>

\* lifespan shutdown: background_worker.stop(), run by the event loop while
\* the worker task is suspended at an await
ShutdownStop(w) ==
    /\ pc[w] \in {"dequeue", "claim", "process", "wait"}
    /\ is_running[w]
    /\ is_running' = [is_running EXCEPT ![w] = FALSE]
    /\ shutdown' = [shutdown EXCEPT ![w] = TRUE]
    /\ at_shutdown' = [at_shutdown EXCEPT ![w] = IF shutdown[w] THEN @ ELSE pc[w]]
    /\ UNCHANGED <<queue, locked, pc, held, wattempts, delays, waited, nonshutdown>>

\* lifespan shutdown: asyncio.wait_for(worker_task, timeout=10.0) goes on
\* waiting while the worker task is not finished
AwaitWorker(w) ==
    /\ pc[w] \notin {"init", "stopped"}
    /\ shutdown[w] /\ ~is_running[w]
    /\ waited[w] < ShutdownTimeout
    /\ waited' = [waited EXCEPT ![w] = Min(@ + ShutdownTimeout \div 2, ShutdownTimeout)]
    /\ UNCHANGED <<qvars, at_shutdown, nonshutdown>>

\* lifespan shutdown: the wait times out, worker_task.cancel()
TimeoutCancel(w) ==
    /\ waited[w] = ShutdownTimeout
    /\ Cancel(w)

\* ============================================== observation processing
\* Trait paths the extractor writes.
Paths ==
    {"work.focus_duration", "work.peak_hours", "current_state.energy_level",
     "work.task_switching_cost", "work.meeting_recovery_time"}

Procs == 1..NumProcs

\* Trait values.  A number is the exact fraction num/den in lowest terms (the
\* float a division yields), a list is the set of its items, anything else is
\* a string.
NoValue == [kind |-> "none", num |-> 0, den |-> 1, str |-> "", items |-> {}]
Str(s) == [NoValue EXCEPT !.kind = "str", !.str = s]
List(items) == [NoValue EXCEPT !.kind = "list", !.items = items]

RECURSIVE GCD(_, _)
GCD(a, b) == IF b = 0 THEN a ELSE GCD(b, a % b)

Num(n, d) ==
    [NoValue EXCEPT !.kind = "num", !.num = n \div GCD(n, d), !.den = d \div GCD(n, d)]

\* A trait.  confidence is in thousandths (0.9 is 900).
Trait(value, confidence, sample_size) ==
    [value |-> value, confidence |-> confidence, sample_size |-> sample_size]

\* a path that is not a key of the traits dict
NoTrait == Trait(NoValue, 0, 0)
Has(traits, path) == traits[path] # NoTrait
NoTraits == [path \in Paths |-> NoTrait]

\* the mindscapes row of the person; version 0 stands for no row
NoMindscape == [exists |-> FALSE, version |-> 0, traits |-> NoTraits]

\* if x := content.get(...): present, and not 0
Truthy(x) == x # Null /\ x # 0

\* Observations: type and the content keys the extractor reads (Null: key
\* absent).  start is the hour _parse_hour returns.
Observation(type, kind, duration_minutes, start, productivity_score, interruptions, energy_level) ==
    [type |-> type, kind |-> kind, duration_minutes |-> duration_minutes,
     start |-> start, productivity_score |-> productivity_score,
     interruptions |-> interruptions, energy_level |-> energy_level]

Observations ==
    { Observation("work_session", "", 90, Null, Null, Null, ""),
      Observation("work_session", "", 60, 9, 5, Null, ""),
      Observation("work_session", "", 0, 14, 2, 3, ""),
      Observation("user_input", "energy_check", Null, Null, Null, Null, "low"),
      Observation("user_input", "note", Null, Null, Null, Null, ""),
      Observation("calendar_event", "meeting", 45, Null, Null, Null, "") }

\* f"{hour:02d}:00-{(hour+1):02d}:00", kept as the hour it starts at
HourRange(hour) == hour

ExtractWorkSessionTraits(content) ==
    LET both == Truthy(content.start) /\ Truthy(content.productivity_score) IN
    [path \in Paths |->
        CASE path = "work.focus_duration" /\ Truthy(content.duration_minutes) ->
                Trait(Num(content.duration_minutes, 1), 900, 1)
          [] path = "work.peak_hours" /\ both /\ content.productivity_score >= 4 ->
                Trait(List({HourRange(content.start)}), 700, 1)
          [] path = "current_state.energy_level" /\ both ->
                Trait(Str(IF content.productivity_score >= 4 THEN "high"
                          ELSE IF content.productivity_score >= 3 THEN "medium"
                          ELSE "low"), 600, 1)
          [] path = "work.task_switching_cost" /\ Truthy(content.interruptions) ->
                Trait(Str(IF content.interruptions >= 3 THEN "high"
                          ELSE IF content.interruptions >= 1 THEN "medium"
                          ELSE "low"), 700, 1)
          [] OTHER -> NoTrait]

ExtractUserInputTraits(content) ==
    [path \in Paths |->
        IF /\ path = "current_state.energy_level"
           /\ content.kind = "energy_check"
           /\ content.energy_level # ""
        THEN Trait(Str(content.energy_level), 1000, 1)
        ELSE NoTrait]

ExtractCalendarTraits(content) ==
    LET duration == IF content.duration_minutes = Null THEN 60
                    ELSE content.duration_minutes
    IN  [path \in Paths |->
            IF path = "work.meeting_recovery_time" /\ content.kind = "meeting"
            THEN Trait(Num(IF duration <= 30 THEN 15
                           ELSE IF duration <= 60 THEN 30 ELSE 45, 1), 500, 1)
            ELSE NoTrait]

ExtractTraits(obs) ==
    CASE obs.type = "work_session" -> ExtractWorkSessionTraits(obs)
      [] obs.type = "user_input" -> ExtractUserInputTraits(obs)
      [] obs.type = "calendar_event" -> ExtractCalendarTraits(obs)
      [] OTHER -> NoTraits

\* round(num / den, 3) in thousandths: the nearest thousandth.  When num / den
\* is half-way between two thousandths in decimal, the float is a little above
\* or a little below it, and up says which.
Round3(num, den, up) ==
    LET q == num \div den
        r == num % den
    IN  IF 2 * r < den THEN q
        ELSE IF 2 * r > den THEN q + 1
        ELSE IF up THEN q + 1 ELSE q

\* MergeTraitValues with a plain mean of the two values and confidences
MergeTraitValuesUnweighted(existing, new, up) ==
    LET total_samples == existing.sample_size + new.sample_size
        ev == existing.value
        nv == new.value
    IN  Trait(IF ev.kind = "num" /\ nv.kind = "num"
              THEN Num(ev.num * nv.den + nv.num * ev.den, 2 * ev.den * nv.den)
              ELSE IF ev.kind = "list" /\ nv.kind = "list"
              THEN List(ev.items \cup nv.items)
              ELSE IF new.confidence > existing.confidence THEN nv ELSE ev,
              Round3(existing.confidence + new.confidence, 2, up),
              total_samples)

\* _merge_trait_values
MergeTraitValues(existing, new, up) ==
    LET total_samples == existing.sample_size + new.sample_size
        merged_confidence_num ==
            existing.confidence * existing.sample_size
                + new.confidence * new.sample_size
        ev == existing.value
        nv == new.value
    IN  Trait(IF ev.kind = "num" /\ nv.kind = "num"
              THEN Num(ev.num * existing.sample_size * nv.den
                           + nv.num * new.sample_size * ev.den,
                       ev.den * nv.den * total_samples)
              ELSE IF ev.kind = "list" /\ nv.kind = "list"
              THEN List(ev.items \cup nv.items)
              ELSE IF new.confidence > existing.confidence THEN nv ELSE ev,
              Round3(merged_confidence_num, total_samples, up),
              total_samples)

\* the loop of _update_mindscape_traits over the extracted traits
MergedTraits(traits, extracted, up) ==
    [path \in Paths |->
        IF ~Has(extracted, path) THEN traits[path]
        ELSE IF Has(traits, path)
             THEN MergeTraitValues(traits[path], extracted[path], up)
             ELSE extracted[path]]

\* Upserted without the version increment on conflict
UpsertedNoIncrement(row, traits) ==
    IF row.exists
    THEN [row EXCEPT !.traits = traits]
    ELSE [exists |-> TRUE, version |-> 1, traits |-> traits]

\* Upserted with the JSON documents concatenated on conflict (traits || excluded.traits)
UpsertedConcat(row, traits) ==
    IF row.exists
    THEN [row EXCEPT !.version = @ + 1,
                     !.traits = [path \in Paths |->
                                    IF Has(traits, path) THEN traits[path]
                                    ELSE row.traits[path]]]
    ELSE [exists |-> TRUE, version |-> 1, traits |-> traits]

\* the row after INSERT ... ON CONFLICT (person_id) DO UPDATE
Upserted(row, traits) ==
    IF row.exists
    THEN [row EXCEPT !.version = @ + 1, !.traits = traits]
    ELSE [exists |-> TRUE, version |-> 1, traits |-> traits]

\* a row written by one direct upsert before any observation is processed
SeedTraits ==
    [NoTraits EXCEPT !["work.focus_duration"] = Trait(Num(60, 1), 800, 1)]
SeedMindscape == Upserted(NoMindscape, SeedTraits)

\* commits entry: the version of the document the writer had read, the
\* version it wrote, and the paths of its extracted traits.  A processor reads
\* after its own last commit, so two entries with the same readv are writes of
\* two processors.
Commit(read, version, extracted) ==
    [readv |-> read, version |-> version,
     paths |-> {path \in Paths : Has(extracted, path)}]

\* commits keeps the last two writes
LastTwo(log) == IF Len(log) > 2 THEN Tail(log) ELSE log

MergeIdle(row, procs) ==
    /\ mindscape = row
    /\ proc_pc = [p \in procs |-> "idle"]
    /\ new_traits = [p \in procs |-> NoTraits]
    /\ current_traits = [p \in procs |-> NoTraits]
    /\ readv = [p \in procs |-> 0]
    /\ skipped = 0
    /\ merges = IF row.exists THEN 1 ELSE 0
    /\ commits = IF row.exists
                 THEN <<Commit(0, row.version, row.traits)>>
                 ELSE << >>

\* process_observation on an observation the extractor gets no trait from:
\* returns mindscape_updated False without reading or writing the row
ProcessNoTraits(p, obs) ==
    /\ proc_pc[p] = "idle"
    /\ ExtractTraits(obs) = NoTraits
    /\ skipped < MaxSkips
    /\ skipped' = skipped + 1
    /\ UNCHANGED <<mindscape, proc_pc, new_traits, current_traits, readv, merges, commits, nonmerge>>

\* process_observation up to the upsert: extract, get_by_person, merge
ReadMerge(p, obs, up) ==
    /\ proc_pc[p] = "idle"
    /\ ExtractTraits(obs) # NoTraits
    /\ merges + Cardinality({q \in Procs : proc_pc[q] = "write"}) < MaxMerges
    /\ new_traits' = [new_traits EXCEPT ![p] = ExtractTraits(obs)]
    /\ current_traits' =
            [current_traits EXCEPT ![p] = MergedTraits(mindscape.traits, ExtractTraits(obs), up)]
    /\ readv' = [readv EXCEPT ![p] = mindscape.version]
    /\ proc_pc' = [proc_pc EXCEPT ![p] = "write"]
    /\ UNCHANGED <<mindscape, skipped, merges, commits, nonmerge>>

\* upsert: the statement and its commit; process_observation returns
Upsert(p) ==
    /\ proc_pc[p] = "write"
    /\ mindscape' = Upserted(mindscape, current_traits[p])
    /\ merges' = merges + 1
    /\ commits' = LastTwo(Append(commits, Commit(readv[p], mindscape'.version, new_traits[p])))
    /\ new_traits' = [new_traits EXCEPT ![p] = NoTraits]
    /\ current_traits' = [current_traits EXCEPT ![p] = NoTraits]
    /\ readv' = [readv EXCEPT ![p] = 0]
    /\ proc_pc' = [proc_pc EXCEPT ![p] = "idle"]
    /\ UNCHANGED <<skipped, nonmerge>>

\* ================================================== feedback processing
\* Feedback: rating is 1..5 or Null, helpful is "true", "false" or "none"
\* (None), suggestion_type is context.get("suggestion_type") ("": no such key)
Feedback(rating, helpful, suggestion_type) ==
    [rating |-> rating, helpful |-> helpful, suggestion_type |-> suggestion_type]

is_negative(feedback) ==
    (feedback.rating # Null /\ feedback.rating <= 2) \/ feedback.helpful = "false"

is_positive(feedback) ==
    (feedback.rating # Null /\ feedback.rating >= 4) \/ feedback.helpful = "true"

\* the branch process_feedback takes on rating and helpful
Classify(feedback) ==
    IF ~is_negative(feedback) /\ ~is_positive(feedback) THEN "neutral"
    ELSE IF is_negative(feedback) THEN "negative"
    ELSE "positive"

\* _get_trait_mapping
TraitMapping(suggestion_type) ==
    CASE suggestion_type = "task_recommendation" ->
            {"work.energy_patterns", "work.focus_duration"}
      [] suggestion_type = "meeting_recovery" ->
            {"work.meeting_recovery", "work.context_switching"}
      [] suggestion_type = "break_reminder" ->
            {"work.break_patterns", "work.sustained_attention"}
      [] suggestion_type = "focus_block" ->
            {"work.peak_hours", "work.focus_duration"}
      [] suggestion_type = "energy_management" ->
            {"work.energy_patterns", "work.fatigue_signals"}
      [] OTHER -> {}

SuggestionTypes ==
    {"task_recommendation", "meeting_recovery", "break_reminder", "focus_block",
     "energy_management"}

\* the trait names of the mindscapes the feedback is about
FeedbackPaths ==
    UNION {TraitMapping(type) : type \in SuggestionTypes}
        \cup {"current_state.energy_level"}

\* a trait with the keys the adjuster writes; Null: no such key
Weighted(trait, weight, last_adjusted, adjustment_reason) ==
    [value |-> trait.value, confidence |-> trait.confidence,
     sample_size |-> trait.sample_size, weight |-> weight,
     last_adjusted |-> last_adjusted, adjustment_reason |-> adjustment_reason]

NoWeighted == Weighted(NoTrait, Null, Null, "")

\* NewWeight without the limits
NewWeightUnlimited(current_weight, adjustment, up) ==
    Round3(current_weight * (1000 + adjustment), 1000, up)

\* NewWeight adding the adjustment to the weight
NewWeightAdded(current_weight, adjustment, up) ==
    LET sum == (current_weight + adjustment) * 1000
        limited == IF adjustment < 0
                   THEN Max(sum, (1000 - MAX_NEGATIVE_CHANGE) * 1000)
                   ELSE Min(sum, MAX_POSITIVE_WEIGHT * 1000)
    IN  Round3(limited, 1000, up)

\* new_weight for current_weight, clamped and rounded to three decimals
NewWeight(current_weight, adjustment, up) ==
    LET product == current_weight * (1000 + adjustment)
        limited == IF adjustment < 0
                   THEN Max(product, (1000 - MAX_NEGATIVE_CHANGE) * 1000)
                   ELSE Min(product, MAX_POSITIVE_WEIGHT * 1000)
    IN  Round3(limited, 1000, up)

\* the mindscape row after _adjust_trait_weights(person_id, traits, adjustment)
AdjustTraitWeights(row, traits, adjustment, up) ==
    LET present == {name \in traits \cap DOMAIN row.traits : row.traits[name] # NoWeighted}
        adjusted ==
            [name \in DOMAIN row.traits |->
                IF name \in present
                THEN LET trait_data == row.traits[name]
                         current_weight == IF trait_data.weight = Null THEN 1000
                                           ELSE trait_data.weight
                     IN  Weighted(trait_data,
                                  NewWeight(current_weight, adjustment, up),
                                  now,
                                  IF adjustment < 0
                                  THEN "negative_feedback_threshold"
                                  ELSE "positive_feedback")
                ELSE row.traits[name]]
    IN  IF ~row.exists \/ present = {} THEN row
        ELSE [row EXCEPT !.traits = adjusted, !.version = @ + 1]

\* a feedback row: the feedback and the days since its created_at (all that
\* is past the window is kept as one day past it)
FeedbackRow(feedback, age) ==
    [rating |-> feedback.rating, helpful |-> feedback.helpful,
     suggestion_type |-> feedback.suggestion_type, created_at |-> age]

\* the table with one more row
AddRow(table, row) ==
    IF row \in DOMAIN table
    THEN [table EXCEPT ![row] = @ + 1]
    ELSE table @@ (row :> 1)

\* type_counts: the rows of the window with this suggestion_type
TypeCount(table, suggestion_type) ==
    LET rows == {row \in DOMAIN table :
                    /\ row.created_at <= NegativeWindowDays
                    /\ row.suggestion_type = suggestion_type}
        RECURSIVE Sum(_)
        Sum(rs) == IF rs = {} THEN 0
                   ELSE LET row == CHOOSE r \in rs : TRUE
                        IN  table[row] + Sum(rs \ {row})
    IN  Sum(rows)

\* the suggestion types _process_negative_feedback adjusts for
OverThreshold(table) ==
    {type \in {row.suggestion_type : row \in DOMAIN table} :
        type # "" /\ TypeCount(table, type) >= NEGATIVE_FEEDBACK_THRESHOLD}

\* the loop over type_counts; every type adjusts its own traits once
RECURSIVE AdjustEach(_, _, _)
AdjustEach(row, types, up) ==
    IF types = {} THEN row
    ELSE LET type == CHOOSE t \in types : TRUE
         IN  AdjustEach(AdjustTraitWeights(row, TraitMapping(type), NEGATIVE_ADJUSTMENT, up),
                        types \ {type}, up)

\* the mindscape row after the part of process_feedback that follows the
\* neutral check and branches on is_negative, table holding the feedback's row
ProcessClassified(class, row, feedback, table, up) ==
    IF class = "neutral" THEN row
    ELSE IF feedback.suggestion_type = "" THEN row
    ELSE IF TraitMapping(feedback.suggestion_type) = {} THEN row
    ELSE IF class = "negative"
         THEN AdjustEach(row, OverThreshold(table), up)
         ELSE AdjustTraitWeights(row, TraitMapping(feedback.suggestion_type),
                                 POSITIVE_ADJUSTMENT, up)

\* the mindscape row after process_feedback(feedback)
ProcessFeedback(row, feedback, table, up) ==
    ProcessClassified(Classify(feedback), row, feedback, table, up)

\* the feedback this person submits
FeedbackInputs ==
    {Feedback(Null, "false", "focus_block"),
     Feedback(1, "none", "task_recommendation"),
     Feedback(1, "true", "focus_block"),
     Feedback(Null, "true", "focus_block"),
     Feedback(4, "none", "energy_management"),
     Feedback(5, "none", "break_reminder"),
     Feedback(3, "none", "focus_block"),
     Feedback(5, "none", ""),
     Feedback(Null, "true", "other")}

\* the rows _process_negative_feedback selects by rating and helpful
Selected(feedback) ==
    (feedback.rating # Null /\ feedback.rating <= 2) \/ feedback.helpful = "false"

NoRows == <<>>

\* a table of count rows of this feedback, just created
Rows(feedback, count) ==
    IF count = 0 THEN NoRows ELSE FeedbackRow(feedback, 0) :> count

\* no feedback submitted
FeedbackIdle ==
    /\ negatives = NoRows
    /\ submitted = 0

NoWeights == [name \in FeedbackPaths |-> NoWeighted]

\* days pass: one more than the window of the negative count
FeedbackTickDays == NegativeWindowDays + 1
Aged(age) == Min(age + FeedbackTickDays, NegativeWindowDays + 1)

\* a mindscape whose traits were never adjusted, and one that was adjusted
\* more than a window ago
PlainMindscape ==
    [exists |-> TRUE, version |-> 1,
     traits |-> [NoWeights EXCEPT
        !["work.peak_hours"] = Weighted(Trait(List({9, 10}), 700, 3), Null, Null, ""),
        !["work.focus_duration"] = Weighted(Trait(Num(60, 1), 800, 1), Null, Null, ""),
        !["work.energy_patterns"] = Weighted(Trait(Str("morning"), 600, 2), Null, Null, ""),
        !["current_state.energy_level"] = Weighted(Trait(Str("high"), 900, 1), Null, Null, "")]]

AdjustedMindscape ==
    [PlainMindscape EXCEPT
        !.version = 3,
        !.traits["work.peak_hours"].weight = 600,
        !.traits["work.peak_hours"].last_adjusted = Aged(now),
        !.traits["work.peak_hours"].adjustment_reason = "negative_feedback_threshold",
        !.traits["work.energy_patterns"].weight = 1900,
        !.traits["work.energy_patterns"].last_adjusted = Aged(now),
        !.traits["work.energy_patterns"].adjustment_reason = "positive_feedback"]

FeedbackMindscapes ==
    {[exists |-> FALSE, version |-> 0, traits |-> NoWeights],
     PlainMindscape, AdjustedMindscape}

FeedbackTick ==
    LET aged(row) == [row EXCEPT !.created_at = Aged(@)]
        RECURSIVE Table(_)
        Table(rows) ==
            IF rows = {} THEN NoRows
            ELSE LET row == CHOOSE r \in rows : TRUE
                     rest == Table(rows \ {row})
                     to == aged(row)
                 IN  IF to \in DOMAIN rest
                     THEN [rest EXCEPT ![to] = @ + negatives[row]]
                     ELSE rest @@ (to :> negatives[row])
    IN  /\ \E row \in DOMAIN negatives : row.created_at <= NegativeWindowDays
        /\ negatives' = Table(DOMAIN negatives)
        /\ mindscape' =
            [mindscape EXCEPT !.traits =
                [name \in DOMAIN @ |->
                    IF @[name].last_adjusted = Null THEN @[name]
                    ELSE [@[name] EXCEPT !.last_adjusted = Aged(@)]]]
        /\ UNCHANGED <<submitted, nonfeedback>>

\* submit_feedback of a person with a persona: the row is stored, then
\* process_feedback runs on it
Submit(feedback, up) ==
    /\ submitted < MaxFeedback
    /\ submitted' = submitted + 1
    /\ negatives' = IF Selected(feedback)
                    THEN AddRow(negatives, FeedbackRow(feedback, 0))
                    ELSE negatives
    /\ mindscape' = ProcessFeedback(mindscape, feedback, negatives', up)
    /\ UNCHANGED nonfeedback

\* ------------------------------------- the two writers of one Mindscape
\* The observation processor and the feedback processor both read the
\* person's row, change the traits document in memory and write it back.  The
\* document is the one of the feedback section: each trait dict with the keys
\* of the extractor and, once adjusted, weight, last_adjusted and
\* adjustment_reason.

\* extracted traits: the deltas of two observations
NoDelta == [name \in FeedbackPaths |-> NoTrait]
Deltas ==
    { [NoDelta EXCEPT !["work.focus_duration"] = Trait(Num(90, 1), 900, 1)],
      [NoDelta EXCEPT !["work.peak_hours"] = Trait(List({14}), 700, 1),
                      !["current_state.energy_level"] = Trait(Str("low"), 600, 1)] }

\* the three keys of a stored trait dict
Plain(trait_data) ==
    Trait(trait_data.value, trait_data.confidence, trait_data.sample_size)

\* _merge_trait_values on a stored trait dict: the dict returned has the keys
\* value, confidence and sample_size and no other
StoredMerged(existing, new, up) ==
    Weighted(MergeTraitValues(Plain(existing), new, up), Null, Null, "")

\* the loop of _update_mindscape_traits over the extracted traits
StoredMergedTraits(traits, extracted, up) ==
    [name \in DOMAIN traits |->
        IF extracted[name] = NoTrait THEN traits[name]
        ELSE IF traits[name] # NoWeighted
             THEN StoredMerged(traits[name], extracted[name], up)
             ELSE Weighted(extracted[name], Null, Null, "")]

AdjustIdle ==
    /\ adjust_pc = "idle"
    /\ adjust_row = [exists |-> FALSE, version |-> 0, traits |-> NoWeights]
    /\ adjusts = 0

\* process_observation up to the upsert: extract, get_by_person, merge
MergeRead(p, extracted, up) ==
    /\ proc_pc[p] = "idle"
    /\ merges + Cardinality({q \in Procs : proc_pc[q] = "write"}) < MaxMerges
    /\ new_traits' = [new_traits EXCEPT ![p] = extracted]
    /\ current_traits' =
            [current_traits EXCEPT ![p] = StoredMergedTraits(mindscape.traits, extracted, up)]
    /\ readv' = [readv EXCEPT ![p] = mindscape.version]
    /\ proc_pc' = [proc_pc EXCEPT ![p] = "write"]
    /\ UNCHANGED <<mindscape, skipped, merges, commits, avars, nonwriters>>

\* upsert: the statement and its commit
MergeUpsert(p) ==
    /\ proc_pc[p] = "write"
    /\ mindscape' = Upserted(mindscape, current_traits[p])
    /\ merges' = merges + 1
    /\ new_traits' = [new_traits EXCEPT ![p] = NoDelta]
    /\ current_traits' = [current_traits EXCEPT ![p] = NoWeights]
    /\ readv' = [readv EXCEPT ![p] = 0]
    /\ proc_pc' = [proc_pc EXCEPT ![p] = "idle"]
    /\ UNCHANGED <<skipped, commits, avars, nonwriters>>

\* _adjust_trait_weights up to the commit: get_by_person, the weights
\* changed and the version incremented on the object in memory
AdjustRead(traits, adjustment, up) ==
    /\ adjust_pc = "idle"
    /\ adjusts < MaxAdjusts
    /\ AdjustTraitWeights(mindscape, traits, adjustment, up) # mindscape
    /\ adjust_row' = AdjustTraitWeights(mindscape, traits, adjustment, up)
    /\ adjust_pc' = "commit"
    /\ UNCHANGED <<adjusts, mvars, nonwriters>>

\* session.commit(): UPDATE mindscapes SET traits = ..., version = ... with
\* the values of the object in memory
AdjustCommit ==
    /\ adjust_pc = "commit"
    /\ mindscape' = adjust_row
    /\ adjusts' = adjusts + 1
    /\ adjust_pc' = "idle"
    /\ adjust_row' = [exists |-> FALSE, version |-> 0, traits |-> NoWeights]
    /\ UNCHANGED <<proc_pc, new_traits, current_traits, readv, skipped, merges, commits,
                   nonwriters>>

\* ================================================== feedback rate limit
Persons == {"p1", "p2"}

\* Cleaned keeping the entries that are exactly a window old
CleanedInclusive(entries) ==
    SelectSeq(entries, LAMBDA ts : now - ts <= RATE_LIMIT_WINDOW)

\* ts for ts in entries if now - ts < RATE_LIMIT_WINDOW
Cleaned(entries) ==
    SelectSeq(entries, LAMBDA ts : now - ts < RATE_LIMIT_WINDOW)

\* the module as imported: an empty store, no call made
RateIdle ==
    /\ rate_limit_store = <<>>
    /\ response = 0
    /\ accepted = [person_id \in Persons |-> <<>>]

\* check_rate_limit(person_id): HTTPException 429 or the call recorded
check_rate_limit(person_id) ==
    LET present == person_id \in DOMAIN rate_limit_store
        cleaned == IF present
                   THEN [rate_limit_store EXCEPT ![person_id] = Cleaned(@)]
                   ELSE rate_limit_store
    IN  /\ IF present /\ Len(cleaned[person_id]) >= RATE_LIMIT_MAX
           THEN /\ rate_limit_store' = cleaned
                /\ response' = 429
           ELSE /\ rate_limit_store' =
                    IF present
                    THEN [cleaned EXCEPT ![person_id] = Append(@, now)]
                    ELSE cleaned @@ (person_id :> <<now>>)
                /\ response' = 200
        /\ accepted' = IF response' = 200
                       THEN [accepted EXCEPT ![person_id] = Append(@, now)]
                       ELSE accepted
        /\ UNCHANGED nonrate

\* hours pass; all that is a window old or older is kept as a window old
RateTickHours == RATE_LIMIT_WINDOW \div 2

RateTick ==
    /\ \E person_id \in DOMAIN rate_limit_store :
        \E i \in DOMAIN rate_limit_store[person_id] :
            now - rate_limit_store[person_id][i] < RATE_LIMIT_WINDOW
    /\ rate_limit_store' =
        [person_id \in DOMAIN rate_limit_store |->
            [i \in DOMAIN rate_limit_store[person_id] |->
                Max(rate_limit_store[person_id][i] - RateTickHours,
                    now - RATE_LIMIT_WINDOW)]]
    /\ accepted' =
        [person_id \in Persons |->
            SelectSeq([i \in DOMAIN accepted[person_id] |->
                            accepted[person_id][i] - RateTickHours],
                      LAMBDA ts : now - ts < RATE_LIMIT_WINDOW)]
    /\ UNCHANGED <<response, nonrate>>

\* ========================================================= rule engine
\* the traits the rules are evaluated on, by dotted path
EngineTraits ==
    ("work.focus_duration" :> Num(45, 1)) @@ ("work.chronotype" :> Str("morning"))

\* a check of a single condition; keys are the keys the dict has
Check(kind, keys, path, operator, value) ==
    [kind |-> kind, keys |-> keys, path |-> path, operator |-> operator,
     value |-> value]

Single(check) == [type |-> "single", check |-> check, conditions |-> <<>>]
AllOf(conditions) == [type |-> "all", check |-> Null, conditions |-> conditions]
AnyOf(conditions) == [type |-> "any", check |-> Null, conditions |-> conditions]

TraitKeys == {"path", "operator", "value"}

\* hasattr(self, '_last_matched_narratives') is False
NoAttribute == <<"no attribute">>

\* the narratives semantic_search finds for a query
Search(query) ==
    CASE query = "deadline" -> <<"n1", "n2", "n3", "n4">>
      [] query = "review" -> <<"n5">>
      [] OTHER -> <<>>

\* the engine's attributes
Engine(last, cache) == [last_matched_narratives |-> last, narrative_cache |-> cache]

\* the outcome of a condition: "true", "false" or "raise", and the engine after
Outcome(result, engine) == [result |-> result, engine |-> engine]

\* float(current) > float(expected_value) and the like: "raise" stands for
\* the ValueError of a value that is no number
Compare(current, operator, expected_value) ==
    IF current.kind # "num" THEN "raise"
    ELSE IF operator = "greater"
         THEN IF current.num > expected_value * current.den THEN "true" ELSE "false"
         ELSE IF current.num < expected_value * current.den THEN "true" ELSE "false"

Bool(b) == IF b THEN "true" ELSE "false"

\* _evaluate_trait_check
EvaluateTraitCheck(check, traits) ==
    IF ~({"path", "operator"} \subseteq check.keys) THEN "raise"
    ELSE IF check.path \notin DOMAIN traits THEN Bool(check.operator = "not_exists")
    ELSE LET current == traits[check.path]
         IN  CASE check.operator = "exists" -> "true"
               [] check.operator = "not_exists" -> "false"
               [] check.operator = "equals" ->
                    Bool(current.kind = "str" /\ current.str = check.value)
               [] check.operator = "not_equals" ->
                    Bool(~(current.kind = "str" /\ current.str = check.value))
               [] check.operator \in {"greater", "less"} ->
                    IF Compare(current, check.operator, check.value) = "raise"
                    THEN "false"
                    ELSE Compare(current, check.operator, check.value)
               [] OTHER -> "false"

\* period_ranges
PeriodRanges ==
    [morning |-> <<5, 12>>, afternoon |-> <<12, 17>>, evening |-> <<17, 21>>,
     night |-> <<21, 5>>]

\* _evaluate_time_check of a check with at most the key "period" (in value),
\* current_time being the context's
EvaluateTimeCheck(check, hour) ==
    IF "period" \in check.keys /\ check.value \in DOMAIN PeriodRanges
    THEN LET start == PeriodRanges[check.value][1]
             end == PeriodRanges[check.value][2]
         IN  IF start <= end THEN start <= hour /\ hour < end
             ELSE hour >= start \/ hour < end
    ELSE TRUE

\* _evaluate_narrative_check
EvaluateNarrativeCheck(check, engine) ==
    LET cache_key == check.value
        narratives == IF cache_key \in DOMAIN engine.narrative_cache
                      THEN engine.narrative_cache[cache_key]
                      ELSE Search(cache_key)
        cache == IF cache_key \in DOMAIN engine.narrative_cache
                 THEN engine.narrative_cache
                 ELSE engine.narrative_cache @@ (cache_key :> narratives)
        last == IF narratives # <<>>
                THEN SubSeq(narratives, 1, Min(3, Len(narratives)))
                ELSE engine.last_matched_narratives
    IN  Outcome(Bool(Len(narratives) > 0), Engine(last, cache))

\* _evaluate_conditions, person_id given
RECURSIVE EvaluateConditions(_, _, _)
EvaluateConditions(conditions, traits, engine) ==
    LET RECURSIVE AllFrom(_, _, _)
        \* the loop of "all" from child i on, results being all(results) so far
        AllFrom(i, results, eng) ==
            IF i > Len(conditions.conditions) THEN Outcome(Bool(results), eng)
            ELSE LET child == EvaluateConditions(conditions.conditions[i], traits, eng)
                 IN  IF child.result = "raise" THEN child
                     ELSE AllFrom(i + 1, results /\ child.result = "true", child.engine)
        RECURSIVE AnyFrom(_, _)
        AnyFrom(i, eng) ==
            IF i > Len(conditions.conditions) THEN Outcome("false", eng)
            ELSE LET child == EvaluateConditions(conditions.conditions[i], traits, eng)
                 IN  IF child.result \in {"raise", "true"} THEN child
                     ELSE AnyFrom(i + 1, child.engine)
    IN  CASE conditions.type = "single" ->
                IF conditions.check.kind = "trait_check"
                THEN Outcome(EvaluateTraitCheck(conditions.check, traits), engine)
                ELSE IF conditions.check.kind = "time_check"
                THEN Outcome(Bool(EvaluateTimeCheck(conditions.check, current_hour)), engine)
                ELSE IF conditions.check.kind = "narrative_check"
                THEN EvaluateNarrativeCheck(conditions.check, engine)
                ELSE Outcome("false", engine)
          [] conditions.type = "all" -> AllFrom(1, TRUE, engine)
          [] conditions.type = "any" -> AnyFrom(1, engine)
          [] OTHER -> Outcome("false", engine)

\* templates of the configuration: template id -> priority
Templates == ("t_focus" :> "high") @@ ("t_break" :> "low")

\* an action of a rule; type "" stands for a dict without the key "type"
Action(type, template) == [type |-> type, template |-> template]

\* a suggestion with the keys evaluate_rules adds
Suggestion(template, rule, narrative_context) ==
    [title |-> template, priority |-> Templates[template], rule_id |-> rule.id,
     weight |-> rule.weight, narrative_context |-> narrative_context]

\* the actions of a rule from action i on: the suggestions appended, whether
\* _generate_suggestion found no template, and whether an action raised; the
\* loop stops at an action that raises.  template "" stands for an action
\* without the key "template"
RECURSIVE RunActions(_, _, _)
RunActions(rule, i, engine) ==
    IF i > Len(rule.actions)
    THEN [suggestions |-> <<>>, not_found |-> FALSE, raised |-> FALSE]
    ELSE LET action == rule.actions[i]
             rest == RunActions(rule, i + 1, engine)
         IN  IF action.type = ""
             THEN [suggestions |-> <<>>, not_found |-> FALSE, raised |-> TRUE]
             ELSE IF action.type # "generate_suggestion" THEN rest
             ELSE IF action.template = "" \/ action.template \notin DOMAIN Templates
             THEN [rest EXCEPT !.not_found = TRUE]
             ELSE [rest EXCEPT !.suggestions =
                        <<Suggestion(action.template, rule, engine.last_matched_narratives)>> \o @]

\* a rule of the configuration
Rule(id, weight, conditions, actions) ==
    [id |-> id, weight |-> weight, conditions |-> conditions, actions |-> actions]

\* RunRule without the test of the weight
RunRuleAnyWeight(rule, traits, engine) ==
    LET outcome == EvaluateConditions(rule.conditions, traits, engine)
        acted == RunActions(rule, 1, outcome.engine)
    IN  IF outcome.result = "true"
        THEN [suggestions |-> acted.suggestions, not_found |-> acted.not_found,
              raised |-> acted.raised, engine |-> outcome.engine]
        ELSE [suggestions |-> <<>>, not_found |-> FALSE,
              raised |-> outcome.result = "raise", engine |-> outcome.engine]

\* the body of the loop of evaluate_rules for one rule: what the rule
\* appends, whether the except clause is entered, and the engine after
RunRule(rule, traits, engine) ==
    LET outcome == EvaluateConditions(rule.conditions, traits, engine)
        acted == RunActions(rule, 1, outcome.engine)
    IN  IF outcome.result = "true" /\ rule.weight > 0
        THEN [suggestions |-> acted.suggestions, not_found |-> acted.not_found,
              raised |-> acted.raised, engine |-> outcome.engine]
        ELSE [suggestions |-> <<>>, not_found |-> FALSE,
              raised |-> outcome.result = "raise", engine |-> outcome.engine]

\* evaluate_rules: the list returned, the rule (by position) each suggestion
\* comes from, the rules whose error is logged, the rules with a template not
\* found, and the engine after
RECURSIVE EvaluateRules(_, _, _, _)
EvaluateRules(rules, i, traits, engine) ==
    IF i > Len(rules)
    THEN [suggestions |-> <<>>, origin |-> <<>>, errors |-> {}, not_found |-> {},
          engine |-> engine]
    ELSE LET run == RunRule(rules[i], traits, engine)
             rest == EvaluateRules(rules, i + 1, traits, run.engine)
         IN  [suggestions |-> run.suggestions \o rest.suggestions,
              origin |-> [k \in 1..Len(run.suggestions) |-> i] \o rest.origin,
              errors |-> IF run.raised THEN {i} \cup rest.errors ELSE rest.errors,
              not_found |-> IF run.not_found THEN {i} \cup rest.not_found
                            ELSE rest.not_found,
              engine |-> rest.engine]

\* the rules a configuration is made of.  The second action has no "template"
FocusRule ==
    Rule("focus", 1000,
         Single(Check("trait_check", TraitKeys, "work.focus_duration", "greater", 30)),
         <<Action("generate_suggestion", "t_focus"), Action("generate_suggestion", "")>>)

\* weight 0
OffRule ==
    Rule("off", 0,
         AllOf(<<>>),
         <<Action("generate_suggestion", "t_focus")>>)

\* a greater comparison against a trait that is no number
NonNumericRule ==
    Rule("nonnumeric", 1000,
         Single(Check("trait_check", TraitKeys, "work.chronotype", "greater", 30)),
         <<Action("generate_suggestion", "t_focus")>>)

\* a narrative check that matches, then a trait check without "operator"
FaultyRule ==
    Rule("faulty", 1000,
         AllOf(<<Single(Check("narrative_check", {"query"}, "", "", "deadline")),
                 Single(Check("trait_check", {"path"}, "work.focus_duration", "", 0))>>),
         <<Action("generate_suggestion", "t_break")>>)

\* any of a missing trait and a matching one; the second action has no "type"
LateFaultRule ==
    Rule("latefault", 1500,
         AnyOf(<<Single(Check("trait_check", TraitKeys, "work.stress", "exists", "")),
                 Single(Check("trait_check", TraitKeys, "work.chronotype", "equals", "morning"))>>),
         <<Action("generate_suggestion", "t_break"), Action("", "t_focus")>>)

\* an empty any and a narrative check that finds nothing, then a check that
\* holds; a template that does not exist and an action of another type
NoSuggestionRule ==
    Rule("nosuggestion", 1000,
         AnyOf(<<AnyOf(<<>>),
                 Single(Check("narrative_check", {"query"}, "", "", "vacation")),
                 Single(Check("trait_check", TraitKeys, "work.stress", "not_exists", "")),
                 Single(Check("trait_check", {"path"}, "work.focus_duration", "", 0))>>),
         <<Action("generate_suggestion", "t_none"), Action("notify", "t_focus")>>)

Rules ==
    {FocusRule, OffRule, NonNumericRule, FaultyRule, LateFaultRule, NoSuggestionRule}

RECURSIVE SeqsUpTo(_, _)
SeqsUpTo(S, n) ==
    IF n = 0 THEN {<<>>}
    ELSE LET shorter == SeqsUpTo(S, n - 1)
         IN  shorter \cup {Append(seq, x) : seq \in shorter, x \in S}

\* config["rules"]
Configs == SeqsUpTo(Rules, MaxRules) \ {<<>>}

\* ConfigurationValidator.validate on a configuration that has metadata,
\* rules and templates and whose rules have id, conditions, actions and
\* weight: the positions of the rules it reports a non-existent template for
Validate(rules) ==
    {i \in DOMAIN rules :
        \E k \in DOMAIN rules[i].actions :
            LET action == rules[i].actions[k]
            IN  /\ action.type = "generate_suggestion"
                /\ action.template # ""
                /\ action.template \notin DOMAIN Templates}

\* RuleEngine(narrative_service), no call made
EngineIdle ==
    /\ last_matched_narratives = NoAttribute
    /\ narrative_cache = <<>>
    /\ config = <<>>
    /\ suggestions = <<>>
    /\ errors = {}
    /\ not_found = {}
    /\ origin = <<>>
    /\ current_hour = 10

\* evaluate_rules(config, mindscape, context, person_id)
evaluate_rules(rules) ==
    LET run == EvaluateRules(rules, 1, EngineTraits,
                             Engine(last_matched_narratives, narrative_cache))
    IN  /\ config' = rules
        /\ suggestions' = run.suggestions
        /\ errors' = run.errors
        /\ not_found' = run.not_found
        /\ origin' = run.origin
        /\ last_matched_narratives' = run.engine.last_matched_narratives
        /\ narrative_cache' = run.engine.narrative_cache
        /\ UNCHANGED <<current_hour, nonengine>>

\* ------------------------------------- rules over the stored Mindscape
\* mindscape.traits as the observation processor stores it is one dict whose
\* keys are the dotted trait names and whose values are the dicts
\* {value, confidence, sample_size}; the engine walks it part by part.

\* path.split(".")
Split(path) ==
    CASE path = "work.focus_duration" -> <<"work", "focus_duration">>
      [] path = "current_state.energy_level" -> <<"current_state", "energy_level">>
      [] path = "work.peak_hours" -> <<"work", "peak_hours">>
      [] path = "work.focus_duration.value" -> <<"work", "focus_duration", "value">>
      [] OTHER -> <<path>>

\* the paths rules and parameters name
RulePaths ==
    {"work.focus_duration", "current_state.energy_level", "work.peak_hours",
     "work.focus_duration.value", "work"}

\* a value that is a dict, and the outcome of a walk that leaves the document
Dict == [NoValue EXCEPT !.kind = "dict"]
Missing == [NoValue EXCEPT !.kind = "missing"]

\* current = traits; for part in path.split("."): current = current[part]
Navigate(traits, path) ==
    LET parts == Split(path)
        key == parts[1]
    IN  IF key \notin DOMAIN traits \/ ~Has(traits, key) THEN Missing
        ELSE IF Len(parts) = 1 THEN Dict
        ELSE IF Len(parts) > 2 THEN Missing
        ELSE CASE parts[2] = "value" -> traits[key].value
               [] parts[2] = "confidence" -> Num(traits[key].confidence, 1000)
               [] parts[2] = "sample_size" -> Num(traits[key].sample_size, 1)
               [] OTHER -> Missing

\* the stored traits as the engine reads them: each path the walk stays
\* inside the document for, with the value it ends at
Resolved(traits) ==
    [path \in {rp \in RulePaths : Navigate(traits, rp) # Missing} |->
        Navigate(traits, path)]

\* _resolve_parameter of {"from_trait": path} without default or transform:
\* Missing stands for None, the parameter is left out
ResolveParameter(path, traits) == Navigate(traits, path)

\* all[time_check period=morning, trait_check path current_state.energy_level
\* equals high] with a suggestion whose parameter is from_trait
\* work.focus_duration
MorningEnergyRule ==
    Rule("morning_energy", 1000,
         AllOf(<<Single(Check("time_check", {"period"}, "", "", "morning")),
                 Single(Check("trait_check", TraitKeys,
                              "current_state.energy_level", "equals", "high"))>>),
         <<Action("generate_suggestion", "t_focus")>>)

\* the time check alone
MorningRule ==
    Rule("morning", 1000,
         Single(Check("time_check", {"period"}, "", "", "morning")),
         <<Action("generate_suggestion", "t_break")>>)

\* the trait is not there
NoEnergyRule ==
    Rule("no_energy", 1000,
         Single(Check("trait_check", TraitKeys,
                      "current_state.energy_level", "not_exists", "")),
         <<Action("generate_suggestion", "t_break")>>)

StoredRules == {MorningEnergyRule, MorningRule, NoEnergyRule}

\* evaluate_rules(config, mindscape, context) over the stored Mindscape
evaluate_stored(rules) ==
    /\ mindscape.exists
    /\ LET run == EvaluateRules(rules, 1, Resolved(mindscape.traits),
                                Engine(last_matched_narratives, narrative_cache))
       IN  /\ config' = rules
           /\ suggestions' = run.suggestions
           /\ errors' = run.errors
           /\ not_found' = run.not_found
           /\ origin' = run.origin
           /\ last_matched_narratives' = run.engine.last_matched_narratives
           /\ narrative_cache' = run.engine.narrative_cache
    /\ UNCHANGED <<current_hour, nonengine>>

\* the context's current_time is another hour
SetHour(hour) ==
    /\ hour # current_hour
    /\ current_hour' = hour
    /\ UNCHANGED <<last_matched_narratives, narrative_cache, config, suggestions,
                   errors, not_found, origin, nonengine>>

\* ==================================================== contextual overlay
\* {"high": 3, "medium": 2, "low": 1}.get(s.get("priority", "medium"), 2)
PriorityRank(priority) ==
    CASE priority = "high" -> 3
      [] priority = "medium" -> 2
      [] priority = "low" -> 1
      [] OTHER -> 2

\* the sort key of a suggestion: (-weight, rank of the priority)
SortKey(s) == <<0 - s.weight, PriorityRank(s.priority)>>

\* tuple comparison key(a) < key(b)
KeyLess(a, b) ==
    \/ SortKey(a)[1] < SortKey(b)[1]
    \/ SortKey(a)[1] = SortKey(b)[1] /\ SortKey(a)[2] < SortKey(b)[2]

\* sorted(list, key=...): ascending in the key, equal keys in their order
RECURSIVE Sorted(_)
Sorted(list) ==
    IF list = <<>> THEN <<>>
    ELSE LET front == Sorted(SubSeq(list, 1, Len(list) - 1))
             last == list[Len(list)]
             \* last goes behind every element whose key is not greater
             place == Cardinality({k \in DOMAIN front : ~KeyLess(last, front[k])})
         IN  SubSeq(front, 1, place) \o <<last>> \o SubSeq(front, place + 1, Len(front))

\* the suggestions a rule engine hands over
OverlaySuggestions ==
    {[title |-> "t_focus", priority |-> priority, rule_id |-> "focus",
      weight |-> weight, narrative_context |-> NoAttribute] :
        priority \in {"high", "low"}, weight \in {1000, 1500}}
    \cup {[title |-> "t_break", priority |-> "medium", rule_id |-> "break",
           weight |-> 1000, narrative_context |-> NoAttribute]}

\* the overlay: whether it was built, and its "suggestions"
Overlay(built, list) == [built |-> built, suggestions |-> list]
NoOverlay == Overlay(FALSE, <<>>)

\* no persona generated
OverlayIdle == overlay = NoOverlay

\* _build_contextual_overlay(mindscape, suggestions, context)["suggestions"]
build_contextual_overlay ==
    /\ overlay = NoOverlay
    /\ overlay' = Overlay(TRUE, SubSeq(Sorted(suggestions), 1,
                                       Min(TopSuggestions, Len(suggestions))))
    /\ UNCHANGED <<suggestions, nonoverlay>>

\* ============================================================= personas

\* ttl_hours: int | None = Field(None, ge=1, le=168)
TtlInRange(ttl_hours) == ttl_hours = Null \/ (ttl_hours >= TtlMin /\ ttl_hours <= TtlMax)

\* "Determine TTL": the request's override, else the mapper configuration's
\* metadata.default_ttl_hours, else 24
DetermineTtl(ttl_hours, default) ==
    IF ttl_hours # Null THEN ttl_hours
    ELSE IF default # Null THEN default
    ELSE DefaultTtlHours

ExpiresAtMinutes(at, ttl_hours) == at + ttl_hours

\* expires_at = datetime.utcnow() + timedelta(hours=ttl_hours), in minutes
ExpiresAt(at, ttl_hours) == at + ttl_hours * 60

\* a row of personas; ttl_hours is the request's override, kept as history
Persona(id, created_at, expires_at, ttl_hours) ==
    [id |-> id, created_at |-> created_at, expires_at |-> expires_at,
     ttl_hours |-> ttl_hours]

\* an answer: the operation, the persona asked for, the status code, the ids
\* listed, and the time of the answer
Answer(op, id, status, listed, at) ==
    [op |-> op, id |-> id, status |-> status, listed |-> listed, at |-> at]

NoAnswer == Answer("", 0, 0, {}, 0)

PersonaIdle ==
    /\ clock = 0
    /\ personas = <<>>
    /\ default_ttl_hours = Null
    /\ persona_response = NoAnswer

\* POST /personas: the request is validated, the generator builds the
\* persona and the row is saved
generate_persona(ttl_hours) ==
    /\ Len(personas) < MaxPersonas
    /\ IF TtlInRange(ttl_hours)
       THEN LET id == Len(personas) + 1
                expires_at == ExpiresAt(clock, DetermineTtl(ttl_hours, default_ttl_hours))
            IN  /\ personas' = Append(personas, Persona(id, clock, expires_at, ttl_hours))
                /\ persona_response' = Answer("generate_persona", id, 200, {}, clock)
       ELSE /\ personas' = personas
            /\ persona_response' = Answer("generate_persona", 0, 422, {}, clock)
    /\ UNCHANGED <<clock, default_ttl_hours, nonpersona>>

\* GET /personas/{persona_id}
get_persona(id) ==
    /\ persona_response' =
          IF id \notin DOMAIN personas THEN Answer("get_persona", id, 404, {}, clock)
          ELSE IF personas[id].expires_at < clock
          THEN Answer("get_persona", id, 410, {}, clock)
          ELSE Answer("get_persona", id, 200, {}, clock)
    /\ UNCHANGED <<clock, personas, default_ttl_hours, nonpersona>>

\* PersonaRepository.get_active
get_active ==
    /\ persona_response' =
          Answer("get_active", 0, 200,
                 {id \in DOMAIN personas : personas[id].expires_at > clock}, clock)
    /\ UNCHANGED <<clock, personas, default_ttl_hours, nonpersona>>

\* the instants, in minutes, the clock is looked at: around one hour, one day
\* and two days after the start
Instants == {0, 1, 59, 60, 61, 1439, 1440, 1441, 2880, 2881}

\* time passes
PersonaTick(at) ==
    /\ at > clock
    /\ clock' = at
    /\ UNCHANGED <<personas, default_ttl_hours, persona_response, nonpersona>>

\* ==================================================== mapper configurations
\* The api/mappers.py endpoints and ConfigurationAdjuster._create_new_version
\* over the mapper_configs table.  Each runs here as one step, its reads and
\* its commit together; a row is [config_id, version, status].
ConfigIds == {"daily-work-optimizer", "focus"}
Statuses == {"draft", "active", "deprecated"}

MapperConfig(config_id, version, status) ==
    [config_id |-> config_id, version |-> version, status |-> status]

\* stands for None where a row is expected
NoMapper == MapperConfig("", 0, "")

MapperIdle ==
    /\ mappers = {}
    /\ mapper_response = ""
    /\ lookup = ""

\* the rows of one config_id
VersionsOf(rows, config_id) == {m \in rows : m.config_id = config_id}

\* MapperConfig.get_latest_version: the row of the highest version, any status
get_latest_version(rows, config_id) ==
    LET found == VersionsOf(rows, config_id)
    IN  IF found = {} THEN NoMapper
        ELSE CHOOSE m \in found : \A n \in found : n.version <= m.version

\* the unique index idx_mapper_config_id_version refuses the row
Duplicate(rows, new) ==
    \E m \in rows : m.config_id = new.config_id /\ m.version = new.version

\* UPDATE ... SET status = DEPRECATED over the rows of a config_id that satisfy
\* a filter
Deprecate(rows, config_id, only_active) ==
    {IF m.config_id = config_id /\ (~only_active \/ m.status = "active")
        THEN MapperConfig(m.config_id, m.version, "deprecated")
        ELSE m : m \in rows}

\* POST /mappers: 409 when the config_id has a version, else version 1 with
\* the requested status
create_mapper(config_id, status) ==
    LET existing == get_latest_version(mappers, config_id)
    IN  /\ IF existing # NoMapper
            THEN /\ mapper_response' = "409"
                 /\ UNCHANGED mappers
            ELSE /\ mappers' = mappers \cup {MapperConfig(config_id, 1, status)}
                 /\ mapper_response' = "200"
        /\ UNCHANGED <<lookup, nonmapper>>

\* POST /mappers/upload: the next version of metadata.id with the status of
\* the form, added and committed; no other row is touched
upload_mapper(config_id, status) ==
    LET existing == get_latest_version(mappers, config_id)
        version == IF existing # NoMapper THEN existing.version + 1 ELSE 1
    IN  /\ version <= MaxVersions
        /\ mappers' = mappers \cup {MapperConfig(config_id, version, status)}
        /\ mapper_response' = "200"
        /\ UNCHANGED <<lookup, nonmapper>>

\* PUT /mappers/{mapper_id}: 404 without a version; else the next version,
\* with the requested status or ("": none requested) that of the latest; a new
\* active version deprecates the active versions before it
update_mapper(mapper_id, status) ==
    LET existing == get_latest_version(mappers, mapper_id)
        new_mapper ==
            MapperConfig(existing.config_id, existing.version + 1,
                         IF status # "" THEN status ELSE existing.status)
    IN  /\ IF existing = NoMapper
            THEN /\ mapper_response' = "404"
                 /\ UNCHANGED mappers
            ELSE /\ new_mapper.version <= MaxVersions
                 /\ mappers' =
                        (IF new_mapper.status = "active"
                            THEN Deprecate(mappers, existing.config_id, TRUE)
                            ELSE mappers) \cup {new_mapper}
                 /\ mapper_response' = "200"
        /\ UNCHANGED <<lookup, nonmapper>>

\* DELETE /mappers/{mapper_id}: every version deprecated; 404 when none
deprecate_mapper(mapper_id) ==
    /\ IF VersionsOf(mappers, mapper_id) = {}
        THEN /\ mapper_response' = "404"
             /\ UNCHANGED mappers
        ELSE /\ mappers' = Deprecate(mappers, mapper_id, FALSE)
             /\ mapper_response' = "200"
    /\ UNCHANGED <<lookup, nonmapper>>

\* ConfigurationAdjuster._create_new_version for the row the feedback's
\* suggestion came from (looked up by its primary key, so any version): a row
\* of version + 1 with the same status; an active row becomes deprecated; when
\* the unique index refuses the new row the commit raises, the session is
\* rolled back and False is returned
create_new_version(mapper) ==
    LET new_mapper ==
            MapperConfig(mapper.config_id, mapper.version + 1, mapper.status)
        updated ==
            IF mapper.status = "active"
            THEN (mappers \ {mapper})
                    \cup {MapperConfig(mapper.config_id, mapper.version, "deprecated")}
            ELSE mappers
    IN  /\ new_mapper.version <= MaxVersions
        /\ IF Duplicate(mappers, new_mapper)
            THEN /\ mapper_response' = "False"
                 /\ UNCHANGED mappers
            ELSE /\ mappers' = updated \cup {new_mapper}
                 /\ mapper_response' = "True"
        /\ UNCHANGED <<lookup, nonmapper>>

\* Result.scalar_one_or_none over the rows a query returned
scalar_one_or_none(rows) ==
    IF rows = {} THEN "None"
    ELSE IF Cardinality(rows) = 1 THEN "one"
    ELSE "MultipleResultsFound"

\* the rows PersonaGenerator.generate_persona selects: of that config_id and
\* ACTIVE
ActiveVersions(rows, mapper_id) ==
    {m \in VersionsOf(rows, mapper_id) : m.status = "active"}

\* the first statement of PersonaGenerator.generate_persona
select_active(mapper_id) ==
    /\ lookup' = scalar_one_or_none(ActiveVersions(mappers, mapper_id))
    /\ UNCHANGED <<mappers, mapper_response, nonmapper>>

\* ============================================== observations written
\* create_observation, one call per request; the observation a call stores
\* carries the call's number as its id.
Requests == 1..MaxRequests

ObservationIdle ==
    /\ observations = {}
    /\ outbox = {}
    /\ obs_pc = [r \in Requests |-> "idle"]

\* observation_repo.create: BaseRepository.create adds the row and commits
CreateObservation(r) ==
    /\ obs_pc[r] = "idle"
    /\ observations' = observations \cup {r}
    /\ obs_pc' = [obs_pc EXCEPT ![r] = "created"]
    /\ UNCHANGED <<outbox, nonobservation>>

\* that commit raises: nothing is stored, the handler answers 500
CreateFails(r) ==
    /\ obs_pc[r] = "idle"
    /\ obs_pc' = [obs_pc EXCEPT ![r] = "500"]
    /\ UNCHANGED <<observations, outbox, nonobservation>>

\* outbox_repo.enqueue: the process_observation task with the observation's id
\* in its payload, added and committed; the handler returns the observation
EnqueueTask(r) ==
    /\ obs_pc[r] = "created"
    /\ outbox' = outbox \cup {r}
    /\ obs_pc' = [obs_pc EXCEPT ![r] = "201"]
    /\ UNCHANGED <<observations, nonobservation>>

\* enqueue raises (its commit fails): the handler answers 500; the
\* observation's commit is not undone
EnqueueFails(r) ==
    /\ obs_pc[r] = "created"
    /\ obs_pc' = [obs_pc EXCEPT ![r] = "500"]
    /\ UNCHANGED <<observations, outbox, nonobservation>>

\* ====================================================== specifications
\* no mindscape row and no observation processor at work
\* the components around the queue at rest
LateIdle == MapperIdle /\ ObservationIdle
MoreIdle == PersonaIdle /\ ShutdownIdle /\ AdjustIdle /\ LateIdle
OthersIdle == RateIdle /\ EngineIdle /\ OverlayIdle /\ MoreIdle

Init == QueueInit /\ MergeIdle(NoMindscape, {}) /\ FeedbackIdle /\ OthersIdle

\* the queue and its workers in operation
Next ==
    \/ Tick
    \/ Enqueue
    \/ \E w \in Workers : Operate(w, ErrLens)

Spec == Init /\ [][Next]_vars

\* ... with the application's shutdown and restart
LifeNext ==
    \/ Tick
    \/ Enqueue
    \/ \E w \in Workers : Operate(w, {LongErr})
    \/ \E w \in Workers : LoopExit(w)
    \/ \E w \in Workers : WaitShutdown(w)
    \/ \E w \in Stoppable : SignalHandler(w)
    \/ \E w \in Stoppable : Stop(w)
    \/ \E w \in Workers : Cancel(w)
    \/ \E w \in Workers : Restart(w)

LifeSpec == Init /\ [][LifeNext]_vars

\* the workers never shut down, scheduled fairly, while time passes
LiveNext ==
    \/ Tick
    \/ Enqueue
    \/ \E w \in Workers : Operate(w, {LongErr})

LiveSpec ==
    /\ Init
    /\ [][LiveNext]_vars
    /\ WF_vars(Tick)
    /\ \A w \in Workers : WF_vars(Operate(w, {LongErr}))

\* the applications that shut down their worker, the event loop scheduling
\* the worker task fairly
ShutdownStep(w) ==
    \/ Start(w)
    \/ LoopEnter(w)
    \/ LoopExit(w)
    \/ DequeueCall(w)
    \/ EnteredSelect(w)
    \/ EnteredNone(w)
    \/ DequeueCommit(w)
    \/ ProcessCompleted(w)
    \/ ProcessFailed(w, {LongErr})
    \/ MarkFailedRaises(w)
    \/ WaitTimeout(w)
    \/ WaitShutdown(w)

ShutdownNext ==
    \/ Enqueue
    \/ \E w \in Stoppable : ShutdownStep(w)
    \/ \E w \in Stoppable : ShutdownSignal(w)
    \/ \E w \in Stoppable : ShutdownStop(w)
    \/ \E w \in Stoppable : AwaitWorker(w)
    \/ \E w \in Stoppable : TimeoutCancel(w)

ShutdownSpec ==
    /\ Init
    /\ [][ShutdownNext]_vars
    /\ \A w \in Stoppable : WF_vars(ShutdownStep(w))

\* -------------------------------------------- the repository called directly
\* dequeue_next by one caller: select, status = in_progress, commit
RepoDequeueNext ==
    /\ \E t \in TaskIds :
        /\ FirstClaimable(t)
        /\ queue' = [queue EXCEPT ![t].status = "in_progress"]
    /\ UNCHANGED <<locked, pc, held, wattempts, is_running, shutdown, delays, nonqueue>>

\* mark_completed(task_id): UPDATE ... WHERE task_id = :id
RepoMarkCompleted(t) ==
    /\ queue' = [queue EXCEPT ![t] = IF Exists(t) THEN CompletedRow(@) ELSE @]
    /\ UNCHANGED <<locked, pc, held, wattempts, is_running, shutdown, delays, nonqueue>>

\* mark_failed(task_id, error, retry_after): no row, no effect
RepoMarkFailed(t, errlen, retry_after) ==
    /\ queue[t].attempts < MaxMarks
    /\ queue' = [queue EXCEPT ![t] =
                    IF Exists(t) THEN FailedRow(@, errlen, retry_after) ELSE @]
    /\ UNCHANGED <<locked, pc, held, wattempts, is_running, shutdown, delays, nonqueue>>

RepoNext ==
    \/ Tick
    \/ Enqueue
    \/ RepoDequeueNext
    \/ \E t \in TaskIds : RepoMarkCompleted(t)
    \/ \E t \in TaskIds, errlen \in ErrLens,
         retry_after \in {Null, now, now + RetryBase} :
            RepoMarkFailed(t, errlen, retry_after)

RepoSpec == Init /\ [][RepoNext]_vars

\* ----------------------------------------- one person's observations merged
MergeInit ==
    /\ QueueInit
    /\ \E row \in {NoMindscape, SeedMindscape} : MergeIdle(row, Procs)
    /\ FeedbackIdle
    /\ OthersIdle

MergeNext ==
    \/ \E p \in Procs, obs \in Observations : ProcessNoTraits(p, obs)
    \/ \E p \in Procs, obs \in Observations, up \in BOOLEAN : ReadMerge(p, obs, up)
    \/ \E p \in Procs : Upsert(p)

MergeSpec == MergeInit /\ [][MergeNext]_vars

\* --------------------------------------------- one person's feedback handled
PriorNegatives == NEGATIVE_FEEDBACK_THRESHOLD - 1

FeedbackInit ==
    /\ QueueInit
    /\ mindscape \in FeedbackMindscapes
    /\ proc_pc = <<>> /\ new_traits = <<>> /\ current_traits = <<>> /\ readv = <<>>
    /\ skipped = 0 /\ merges = 0 /\ commits = <<>>
    /\ \E count \in {0, PriorNegatives} :
        negatives = Rows(Feedback(Null, "false", "focus_block"), count)
    /\ submitted = 0
    /\ OthersIdle

FeedbackNext ==
    \/ FeedbackTick
    \/ \E feedback \in FeedbackInputs, up \in BOOLEAN : Submit(feedback, up)

FeedbackSpec == FeedbackInit /\ [][FeedbackNext]_vars

\* ------------------------------------------------ the feedback rate limit
RateNext ==
    \/ RateTick
    \/ \E person_id \in Persons : check_rate_limit(person_id)

RateSpec == Init /\ [][RateNext]_vars

\* ---------------------------------------------- one rule engine evaluating
EngineNext == \E rules \in Configs : evaluate_rules(rules)

\* a new engine, or one that has evaluated a narrative check on "review" for
\* another configuration
EngineInit ==
    /\ QueueInit /\ MergeIdle(NoMindscape, {}) /\ FeedbackIdle /\ RateIdle
    /\ \E query \in {"", "review"} :
        /\ last_matched_narratives = IF query = "" THEN NoAttribute ELSE Search(query)
        /\ narrative_cache = IF query = "" THEN <<>> ELSE query :> Search(query)
    /\ config = <<>> /\ suggestions = <<>> /\ errors = {} /\ not_found = {}
    /\ origin = <<>> /\ current_hour = 10
    /\ OverlayIdle /\ MoreIdle

EngineSpec == EngineInit /\ [][EngineNext]_vars

\* ---------------------- one person's Mindscape written by both processors
WritersInit ==
    /\ QueueInit /\ FeedbackIdle /\ RateIdle /\ EngineIdle /\ OverlayIdle
    /\ PersonaIdle /\ ShutdownIdle /\ LateIdle
    /\ mindscape \in {PlainMindscape, AdjustedMindscape}
    /\ proc_pc = [p \in Procs |-> "idle"]
    /\ new_traits = [p \in Procs |-> NoDelta]
    /\ current_traits = [p \in Procs |-> NoWeights]
    /\ readv = [p \in Procs |-> 0]
    /\ skipped = 0 /\ commits = <<>>
    /\ merges = 1
    /\ adjusts = mindscape.version - 1
    /\ adjust_pc = "idle"
    /\ adjust_row = [exists |-> FALSE, version |-> 0, traits |-> NoWeights]

WritersNext ==
    \/ \E p \in Procs, extracted \in Deltas, up \in BOOLEAN : MergeRead(p, extracted, up)
    \/ \E p \in Procs : MergeUpsert(p)
    \/ \E type \in {"focus_block", "energy_management"},
          adjustment \in {NEGATIVE_ADJUSTMENT, POSITIVE_ADJUSTMENT}, up \in BOOLEAN :
            AdjustRead(TraitMapping(type), adjustment, up)
    \/ AdjustCommit

WritersSpec == WritersInit /\ [][WritersNext]_vars

\* ----------------------- observations processed, then rules over the result
\* the work session of the scenario, and one of low productivity
WorkSessions ==
    { Observation("work_session", "", 90, 10, 5, 0, ""),
      Observation("work_session", "", 30, 15, 2, 0, "") }

\* hours around the morning
Hours == {4, 5, 10, 11, 12}

StoredInit == MergeInit

StoredNext ==
    \/ \E obs \in WorkSessions, up \in BOOLEAN : ReadMerge(1, obs, up)
    \/ Upsert(1)
    \/ \E rule \in StoredRules : evaluate_stored(<<rule>>)
    \/ \E hour \in Hours : SetHour(hour)

StoredSpec == StoredInit /\ [][StoredNext]_vars

\* -------------------------------------- one overlay built from a given list
OverlayInit ==
    /\ QueueInit /\ MergeIdle(NoMindscape, {}) /\ FeedbackIdle /\ RateIdle
    /\ last_matched_narratives = NoAttribute /\ narrative_cache = <<>>
    /\ config = <<>> /\ errors = {} /\ not_found = {} /\ origin = <<>>
    /\ current_hour = 10
    /\ suggestions \in SeqsUpTo(OverlaySuggestions, MaxSuggestions)
    /\ OverlayIdle /\ MoreIdle

OverlayNext == build_contextual_overlay

OverlaySpec == OverlayInit /\ [][OverlayNext]_vars


\* ------------------------------------------------- personas generated and read
\* the ttl_hours of a request: none, and values in and around the range
TtlRequests == {Null, 0, 1, TtlMax, TtlMax + 1}

PersonaInit ==
    /\ QueueInit /\ MergeIdle(NoMindscape, {}) /\ FeedbackIdle
    /\ RateIdle /\ EngineIdle /\ OverlayIdle /\ ShutdownIdle /\ AdjustIdle
    /\ LateIdle
    /\ clock = 0
    /\ personas = <<>>
    /\ default_ttl_hours \in {Null, 48}
    /\ persona_response = NoAnswer

PersonaNext ==
    \/ \E ttl_hours \in TtlRequests : generate_persona(ttl_hours)
    \/ \E id \in 1..MaxPersonas : get_persona(id)
    \/ get_active
    \/ \E at \in Instants : PersonaTick(at)

PersonaSpec == PersonaInit /\ [][PersonaNext]_vars

\* ---------------------------------------- mapper configurations administered
MapperInit ==
    /\ QueueInit /\ MergeIdle(NoMindscape, {}) /\ FeedbackIdle
    /\ RateIdle /\ EngineIdle /\ OverlayIdle
    /\ PersonaIdle /\ ShutdownIdle /\ AdjustIdle /\ LateIdle

MapperNext ==
    \/ \E c \in ConfigIds, status \in Statuses : create_mapper(c, status)
    \/ \E c \in ConfigIds, status \in Statuses : upload_mapper(c, status)
    \/ \E c \in ConfigIds, status \in Statuses \cup {""} : update_mapper(c, status)
    \/ \E c \in ConfigIds : deprecate_mapper(c)
    \/ \E mapper \in mappers : create_new_version(mapper)
    \/ \E c \in ConfigIds : select_active(c)

MapperSpec == MapperInit /\ [][MapperNext]_vars

\* ------------------------------------------------------ observations written
ObservationNext ==
    \E r \in Requests :
        \/ CreateObservation(r)
        \/ CreateFails(r)
        \/ EnqueueTask(r)
        \/ EnqueueFails(r)

ObservationSpec == MapperInit /\ [][ObservationNext]_vars

\* ================================================================ claims
\* a worker's dequeue_next call is in flight or its task is being processed
Holds(w, t) == pc[w] \in {"claim", "process"} /\ held[w] = t

\* C1 (Spec): queue claim exclusivity.  However the dequeue_next calls of the
\* workers interleave, no task is returned to two callers: two workers never
\* hold the same task, and a task in_progress is held by at most one of them.
C1_ClaimExclusive ==
    \A t \in TaskIds :
        Cardinality({w \in Workers : held[w] = t}) <= 1

\* C1 witness: two dequeue_next calls in flight at once, before either commits,
\* each with a row of its own
C1_Witness ==
    \E w1, w2 \in Workers :
        /\ w1 # w2
        /\ pc[w1] = "claim" /\ pc[w2] = "claim"
        /\ held[w1] # held[w2]

\* C2 (Spec): dequeue_next returns only a row that is pending, due
\* (run_after <= now) and not locked by another claimer at that moment, and no
\* such row was created earlier; its commit sets the row in_progress; it
\* returns none only when there is no such row.  Hence a row put back to
\* pending by a failure is not claimed before its run_after.
C2_ClaimsEarliestDue ==
    [][\A w \in Workers :
        /\ (pc[w] = "poll" /\ pc'[w] = "claim") =>
            /\ queue[held'[w]].status = "pending"
            /\ queue[held'[w]].run_after <= now
            /\ locked[held'[w]] = Null
            /\ \A u \in TaskIds :
                (/\ queue[u].status = "pending"
                 /\ queue[u].run_after <= now
                 /\ locked[u] = Null)
                    => queue[held'[w]].created_at <= queue[u].created_at
        /\ (pc[w] = "claim" /\ pc'[w] = "process") =>
            /\ held'[w] = held[w]
            /\ queue'[held[w]].status = "in_progress"
        /\ (pc[w] = "poll" /\ pc'[w] = "wait") =>
            ~\E u \in TaskIds :
                /\ queue[u].status = "pending"
                /\ queue[u].run_after <= now
                /\ locked[u] = Null
    ]_vars

\* C2 witness: a retried row has been claimed once due, while another failed
\* row is pending and not yet due
C2_Witness ==
    \E w \in Workers, u \in TaskIds :
        /\ pc[w] = "claim"
        /\ queue[held[w]].attempts >= 1
        /\ u # held[w]
        /\ queue[u].status = "pending"
        /\ queue[u].run_after > now

\* C3 (Spec): when processing raises, the worker calls mark_failed with the
\* retry time now + min(60 * 2^attempts, 3600); mark_failed adds exactly 1 to
\* attempts, records the error cut to 500 characters, and the row becomes
\* pending with run_after = retry_after when the new attempts is < 3 and a
\* retry_after is given, failed otherwise.
C3_MarkFailed ==
    [][\A w \in Workers :
        (/\ pc[w] = "process" /\ pc'[w] = "wait"
         /\ queue'[held[w]].status # "done") =>
            LET old == queue[held[w]]
                new == queue'[held[w]]
            IN  /\ new.attempts = old.attempts + 1
                /\ new.last_error \in {21, 500}
                /\ new.created_at = old.created_at
                /\ IF old.attempts + 1 < 3
                   THEN /\ new.status = "pending"
                        /\ new.run_after = now + 60 * (2 ^ old.attempts)
                   ELSE new.status = "failed"
                \* mark_failed on the same row with any error and any
                \* retry_after, None included
                /\ \A errlen \in ErrLens, retry_after \in {Null, now, now + RetryBase} :
                    LET row == FailedRow(old, errlen, retry_after)
                    IN  /\ row.attempts = old.attempts + 1
                        /\ row.last_error = (IF errlen > 500 THEN 500 ELSE errlen)
                        /\ IF old.attempts + 1 < 3 /\ retry_after # Null
                           THEN row.status = "pending" /\ row.run_after = retry_after
                           ELSE row.status = "failed"
    ]_vars

\* C3 witness: a row that failed twice is pending again, due 120 s from now,
\* with its error cut to 500 characters
C3_Witness ==
    \E t \in TaskIds :
        /\ queue[t].status = "pending"
        /\ queue[t].attempts = 2
        /\ queue[t].run_after = now + 120
        /\ queue[t].last_error = 500

\* C4 (Spec): for a task the worker fails again and again the retry delays are
\* min(60 * 2^k, 3600) for k = 0, 1, ..., each greater than the one before
\* (until the cap); the task is failed exactly when attempts is 3, and attempts
\* never exceeds 3.
C4_RetryProgression ==
    \A t \in TaskIds :
        /\ queue[t].attempts <= 3
        /\ (queue[t].status = "failed") <=> (queue[t].attempts = 3)
        /\ Len(delays[t]) = queue[t].attempts
        /\ \A i \in 1..Len(delays[t]) :
            /\ delays[t][i] = Min(60 * (2 ^ (i - 1)), 3600)
            /\ \A j \in 1..Len(delays[t]) :
                i < j => (delays[t][i] < delays[t][j] \/ delays[t][i] = 3600)

\* C4 witness: a task failed three times, after delays of 60, 120 and 240 s
C4_Witness ==
    \E t \in TaskIds :
        /\ queue[t].status = "failed"
        /\ queue[t].attempts = 3
        /\ delays[t] = <<60, 120, 240>>

\* C5 (RepoSpec), the claim as stated: once a row is done or failed, no
\* dequeue_next, mark_completed or mark_failed changes its status, attempts or
\* run_after (which only comes closer as time passes).
C5_TerminalAbsorbing ==
    [][\A t \in TaskIds :
        queue[t].status \in {"done", "failed"} =>
            /\ queue'[t].status = queue[t].status
            /\ queue'[t].attempts = queue[t].attempts
            /\ queue'[t].run_after \in {queue[t].run_after, Shift(queue[t].run_after)}
    ]_vars

\* C6 (LiveSpec), the claim as stated: with the workers never shut down and
\* scheduled fairly while time passes, every pending task eventually is done
\* or failed.
C6_EventuallyTerminal ==
    \A t \in TaskIds :
        (queue[t].status = "pending") ~> (queue[t].status \in {"done", "failed"})

\* C7 (LifeSpec): no stale-claim reclamation.  A row that is in_progress and
\* held by no worker (its worker was cancelled or died) stays in_progress:
\* no step returns it from dequeue_next or changes its status.
C7_NoReclaim ==
    [][\A t \in TaskIds :
        (queue[t].status = "in_progress" /\ \A w \in Workers : ~Holds(w, t)) =>
            /\ queue'[t].status = "in_progress"
            /\ queue'[t].attempts = queue[t].attempts
            /\ \A w \in Workers : ~Holds(w, t)'
    ]_vars

\* C7 witness: a row is in_progress with no worker holding it, every other
\* worker is stopped or not started, and a dequeue_next has passed it over for
\* a row created later
C7_Witness ==
    \E t \in TaskIds, w \in Workers :
        /\ queue[t].status = "in_progress"
        /\ \A v \in Workers : ~Holds(v, t)
        /\ pc[w] = "claim"
        /\ queue[held[w]].created_at > queue[t].created_at
        /\ \A v \in Workers \ {w} : pc[v] \in {"init", "stopped"}

\* a processor's upsert commits in this step
Commits(p) == proc_pc[p] = "write" /\ proc_pc'[p] = "idle"

\* C8 (MergeSpec): every successful merge adds exactly 1 to the mindscape
\* version: the first write creates the row at version 1 and each later write
\* makes it one more, so after k writes the version is k; an observation no
\* trait is extracted from leaves the row as it is.
C8_VersionPerMerge ==
    [][/\ \A p \in Procs :
            Commits(p) =>
                /\ mindscape'.exists
                /\ mindscape'.version =
                        (IF mindscape.exists THEN mindscape.version + 1 ELSE 1)
       /\ skipped' # skipped => mindscape' = mindscape
       /\ mindscape.version = merges
       /\ mindscape'.version = merges'
    ]_vars

\* C8 witness: the row has been written three times and is at version 3, and
\* an observation without traits has been processed
C8_Witness ==
    /\ merges = 3
    /\ mindscape.version = 3
    /\ skipped >= 1
    /\ \A p \in Procs : proc_pc[p] = "idle"

\* C9 (MergeSpec): concurrent merges of one person serialize on the write.
\* Every commit replaces the whole trait document by the committer's and takes
\* the next version, above every one before; when two processors read the same
\* document and then commit one after the other, the second commit leaves the
\* version exactly 2 above the one both read, and a commit neither fails the
\* other's write nor changes what it is about to write.
C9_ConcurrentMergesSerialize ==
    [][\A p \in Procs :
        Commits(p) =>
            /\ mindscape'.traits = current_traits[p]
            /\ mindscape'.version > mindscape.version
            /\ mindscape'.version > readv[p]
            /\ \A i \in 1..Len(commits) : commits[i].version < mindscape'.version
            /\ (/\ Len(commits) >= 1
                /\ commits[Len(commits)].readv = readv[p]
                /\ commits[Len(commits)].version = readv[p] + 1)
                    => mindscape'.version = readv[p] + 2
            /\ \A q \in Procs \ {p} :
                proc_pc[q] = "write" =>
                    /\ proc_pc'[q] = "write"
                    /\ current_traits'[q] = current_traits[q]
    ]_vars

\* C9 witness: two processors read the same document and both committed; the
\* version is 2 above what they read, and a path only the first one wrote is
\* not in the stored document
C9_Witness ==
    /\ Len(commits) = 2
    /\ commits[1].readv = commits[2].readv
    /\ commits[1].version = commits[1].readv + 1
    /\ mindscape.version = commits[1].readv + 2
    /\ \E path \in commits[1].paths \ commits[2].paths :
        ~Has(mindscape.traits, path)

\* a processor reads the row and merges in this step
Merges(p) == proc_pc[p] = "idle" /\ proc_pc'[p] = "write"

\* what C10 says of one path in either wording, but for the confidence;
\* old: the trait read, delta: the one extracted, new: the one to be written
MergeRule(old, delta, new) ==
    IF old = NoTrait
    THEN new = delta
    ELSE /\ new.sample_size = old.sample_size + delta.sample_size
         /\ (old.value.kind = "num" /\ delta.value.kind = "num") =>
                /\ new.value.kind = "num"
                /\ new.value.num * old.value.den * delta.value.den * new.sample_size
                    = new.value.den *
                        (old.value.num * old.sample_size * delta.value.den
                            + delta.value.num * delta.sample_size * old.value.den)

\* sample_size does not go down when a merge is written on the document it
\* read, and every stored confidence is within [0, 1]
MergeMonotone ==
    /\ \A p \in Procs, path \in Paths :
        (Commits(p) /\ readv[p] = mindscape.version) =>
            mindscape'.traits[path].sample_size >= mindscape.traits[path].sample_size
    /\ \A path \in Paths :
        /\ mindscape'.traits[path].confidence >= 0
        /\ mindscape'.traits[path].confidence <= 1000

\* C10 (MergeSpec), the claim as stated: a path absent from the store is
\* inserted as extracted; merged into an existing trait, value (of two numbers)
\* and confidence are exactly the sample-weighted means and sample_size the
\* sum; sample_size never goes down from one merge to the next and confidence
\* stays within [0, 1].
C10_WeightedMergeExact ==
    [][/\ \A p \in Procs, path \in Paths :
            (Merges(p) /\ Has(new_traits'[p], path)) =>
                LET old == mindscape.traits[path]
                    delta == new_traits'[p][path]
                    new == current_traits'[p][path]
                IN  /\ MergeRule(old, delta, new)
                    /\ (old.value.kind = "num" /\ delta.value.kind = "num") =>
                        new.confidence * new.sample_size
                            = old.confidence * old.sample_size
                                + delta.confidence * delta.sample_size
       /\ MergeMonotone
    ]_vars

\* C10 amended (MergeSpec): as C10, with the merged confidence being the
\* sample-weighted mean rounded to three decimals, that is, a thousandth no
\* further than 0.0005 from the mean.
C10_WeightedMergeRounded ==
    [][/\ \A p \in Procs, path \in Paths :
            (Merges(p) /\ Has(new_traits'[p], path)) =>
                LET old == mindscape.traits[path]
                    delta == new_traits'[p][path]
                    new == current_traits'[p][path]
                    mean_num == old.confidence * old.sample_size
                                    + delta.confidence * delta.sample_size
                    off == new.confidence * new.sample_size - mean_num
                IN  /\ MergeRule(old, delta, new)
                    /\ Has(mindscape.traits, path) =>
                        /\ 2 * off <= new.sample_size
                        /\ 2 * off >= 0 - new.sample_size
       /\ MergeMonotone
    ]_vars

\* C10 witness: 90 merged twice into {value 60, confidence 0.8, sample_size 1}:
\* value 80, sample_size 3, and confidence 0.867 for a mean of 0.8666...
C10_Witness ==
    mindscape.traits["work.focus_duration"] = Trait(Num(80, 1), 867, 3)

\* the class the classification rule gives: positive first, then negative
Classification(feedback) ==
    IF feedback.helpful = "true" \/ (feedback.rating # Null /\ feedback.rating >= 4)
    THEN "positive"
    ELSE IF feedback.helpful = "false" \/ (feedback.rating # Null /\ feedback.rating <= 2)
    THEN "negative"
    ELSE "neutral"

\* C11: feedback is positive when helpful is true or rating >= 4, otherwise
\* negative when helpful is false or rating <= 2, otherwise neutral, and the
\* processor acts on every feedback event according to this class
C11_ActsOnClass ==
    [][\A feedback \in FeedbackInputs, up \in BOOLEAN :
        Submit(feedback, up) =>
            mindscape' = ProcessClassified(Classification(feedback), mindscape,
                                           feedback, negatives', up)]_vars

\* the traits that carry a weight
Weights(row) == {row.traits[name].weight : name \in DOMAIN row.traits} \ {Null}

\* C12: starting from trait weights in [0.5, 2.0] (default 1.0), after any
\* sequence of positive and negative feedback events every trait weight is in
\* [0.5, 2.0]
C12_WeightClamped ==
    \A weight \in Weights(mindscape) :
        /\ weight >= 1000 - MAX_NEGATIVE_CHANGE
        /\ weight <= MAX_POSITIVE_WEIGHT

\* feedback has driven one weight to the floor and another to the ceiling
C12_Witness ==
    /\ submitted > 0
    /\ \E name \in DOMAIN mindscape.traits :
        /\ mindscape.traits[name].weight = 1000 - MAX_NEGATIVE_CHANGE
        /\ mindscape.traits[name].adjustment_reason = "negative_feedback_threshold"
    /\ \E name \in DOMAIN mindscape.traits :
        /\ mindscape.traits[name].weight = MAX_POSITIVE_WEIGHT
        /\ mindscape.traits[name].adjustment_reason = "positive_feedback"

\* C13: for one suggestion type, a negative event that is one of the first
\* four of its type within the 7-day window leaves every trait weight
\* unchanged, and the fifth within the window adjusts the type's mapped traits
\* exactly once; events older than the window are not counted
C13_WindowedThreshold ==
    [][\A feedback \in FeedbackInputs, up \in BOOLEAN :
        (/\ submitted' = submitted + 1
         /\ Classification(feedback) = "negative"
         /\ TraitMapping(feedback.suggestion_type) # {}
         /\ Submit(feedback, up))
        => LET count == TypeCount(negatives', feedback.suggestion_type)
           IN  /\ count < NEGATIVE_FEEDBACK_THRESHOLD => mindscape' = mindscape
               /\ count = NEGATIVE_FEEDBACK_THRESHOLD =>
                    mindscape' = AdjustTraitWeights(mindscape,
                                    TraitMapping(feedback.suggestion_type),
                                    NEGATIVE_ADJUSTMENT, up)]_vars

\* the weight a trait has: 1.0 when it has no weight key
WeightOf(trait) == IF trait.weight = Null THEN 1000 ELSE trait.weight

\* the mapped traits of the feedback that the mindscape has
Mapped(row, feedback) ==
    {name \in TraitMapping(feedback.suggestion_type) \cap DOMAIN row.traits :
        row.traits[name] # NoWeighted}

\* a million times min(old_weight * 1.1, 2.0)
Raised(trait) ==
    Min(WeightOf(trait) * (1000 + POSITIVE_ADJUSTMENT), MAX_POSITIVE_WEIGHT * 1000)

Kept(trait) == <<trait.value, trait.confidence, trait.sample_size>>

\* C15: processing a feedback event leaves value, confidence and sample_size
\* of every trait unchanged, and leaves every field of every trait that is not
\* mapped from the feedback's suggestion type unchanged
C15_WritesMappedWeightsOnly ==
    [][\A feedback \in FeedbackInputs, up \in BOOLEAN :
        (submitted' = submitted + 1 /\ Submit(feedback, up))
        => \A name \in DOMAIN mindscape.traits :
            /\ Kept(mindscape'.traits[name]) = Kept(mindscape.traits[name])
            /\ name \notin TraitMapping(feedback.suggestion_type)
                => mindscape'.traits[name] = mindscape.traits[name]]_vars

\* the feedback is one the processor has nothing to adjust for
NothingToAdjust(row, feedback, table) ==
    \/ Classification(feedback) = "neutral"
    \/ feedback.suggestion_type = ""
    \/ TraitMapping(feedback.suggestion_type) = {}
    \/ Mapped(row, feedback) = {}
    \/ /\ Classification(feedback) = "negative"
       /\ TypeCount(table, feedback.suggestion_type) < NEGATIVE_FEEDBACK_THRESHOLD

\* C16: processing one feedback event bumps the version by exactly 1 and sets
\* last_adjusted and adjustment_reason on each adjusted trait when a trait
\* weight is adjusted; neutral feedback, negative feedback below the
\* threshold, feedback with no or an unmapped suggestion type and feedback
\* whose mapped traits are all absent leave traits and version unchanged
C16_OneBumpPerAdjustingEvent ==
    [][\A feedback \in FeedbackInputs, up \in BOOLEAN :
        (submitted' = submitted + 1 /\ Submit(feedback, up))
        => /\ NothingToAdjust(mindscape, feedback, negatives') => mindscape' = mindscape
           /\ mindscape'.traits # mindscape.traits
                => mindscape'.version = mindscape.version + 1
           /\ mindscape'.traits = mindscape.traits
                => mindscape'.version \in {mindscape.version, mindscape.version + 1}
           /\ \A name \in DOMAIN mindscape.traits :
                mindscape'.traits[name] # mindscape.traits[name]
                    => /\ mindscape'.traits[name].last_adjusted = now
                       /\ mindscape'.traits[name].adjustment_reason # ""]_vars

\* the recorded calls of a person
Recorded(store, person_id) ==
    IF person_id \in DOMAIN store THEN store[person_id] ELSE <<>>

\* C17: for each person independently, check_rate_limit lets at most 10 calls
\* through within any trailing 24-hour window and rejects the next one with
\* 429; a rejected call is not recorded, and calls older than 24 hours stop
\* counting
C17_RateLimit ==
    [][/\ \A person_id \in Persons : Len(accepted'[person_id]) <= RATE_LIMIT_MAX
       /\ \A person_id \in Persons :
            check_rate_limit(person_id) =>
                /\ response' = IF Len(accepted[person_id]) >= RATE_LIMIT_MAX
                               THEN 429 ELSE 200
                /\ response' = 429 =>
                    /\ accepted' = accepted
                    /\ Cleaned(Recorded(rate_limit_store', person_id))
                        = Cleaned(Recorded(rate_limit_store, person_id))
                /\ \A other \in Persons \ {person_id} :
                    Recorded(rate_limit_store', other) = Recorded(rate_limit_store, other)]_vars

\* a person with ten calls let through at different hours of the last day has
\* just been rejected, while the other person has been let through
C17_Witness ==
    /\ response = 429
    /\ \E person_id \in Persons :
        /\ Len(accepted[person_id]) = RATE_LIMIT_MAX
        /\ accepted[person_id][1] # now
        /\ accepted[person_id][RATE_LIMIT_MAX] = now
        /\ \E other \in Persons \ {person_id} :
            /\ Len(accepted[other]) > 0
            /\ Len(accepted[other]) < RATE_LIMIT_MAX

\* the suggestions of the returned list that come from the rules at these
\* positions
From(list, from, positions) ==
    LET RECURSIVE Pick(_)
        Pick(k) == IF k > Len(list) THEN <<>>
                   ELSE IF from[k] \in positions THEN <<list[k]>> \o Pick(k + 1)
                   ELSE Pick(k + 1)
    IN  Pick(1)

\* the configuration without the rule at position i
Without(rules, i) == SubSeq(rules, 1, i - 1) \o SubSeq(rules, i + 1, Len(rules))

\* C18: an exception raised while evaluating one rule is caught, and every
\* other rule of the configuration contributes exactly the suggestions it
\* would contribute if the faulty rule were absent
C18_RuleIsolation ==
    [][evaluate_rules(config') =>
        \A i \in DOMAIN config' :
            i \in errors' =>
                From(suggestions', origin', DOMAIN config' \ {i})
                    = EvaluateRules(Without(config', i), 1, EngineTraits,
                                    Engine(last_matched_narratives, narrative_cache)).suggestions]_vars

\* the truth of a condition tree: all is the conjunction and any the
\* disjunction of the children; a check that cannot be evaluated is not true
RECURSIVE TreeTrue(_)
TreeTrue(conditions) ==
    CASE conditions.type = "single" ->
            IF conditions.check.kind = "trait_check"
            THEN EvaluateTraitCheck(conditions.check, EngineTraits) = "true"
            ELSE conditions.check.kind = "narrative_check"
                    /\ Search(conditions.check.value) # <<>>
      [] conditions.type = "all" ->
            \A k \in DOMAIN conditions.conditions : TreeTrue(conditions.conditions[k])
      [] conditions.type = "any" ->
            \E k \in DOMAIN conditions.conditions : TreeTrue(conditions.conditions[k])
      [] OTHER -> FALSE

\* the generate_suggestion actions of the rule whose template exists
Usable(rule) ==
    {k \in DOMAIN rule.actions :
        /\ rule.actions[k].type = "generate_suggestion"
        /\ rule.actions[k].template \in DOMAIN Templates}

\* C19 (as stated): a rule emits suggestions if and only if its condition tree
\* evaluates true and its weight is > 0
C19_EmitsIffTrueAndWeighted ==
    [][evaluate_rules(config') =>
        \A i \in DOMAIN config' :
            i \notin errors' =>
                (From(suggestions', origin', {i}) # <<>>
                    <=> (TreeTrue(config'[i].conditions) /\ config'[i].weight > 0))]_vars

\* C19 (amended): a rule emits suggestions only if its condition tree is true
\* and its weight is > 0, and then, if no exception is raised, one for each of
\* its generate_suggestion actions whose template exists; each emitted
\* suggestion carries the rule_id and weight of its rule
C19_EmitsPerUsableAction ==
    [][evaluate_rules(config') =>
        \A i \in DOMAIN config' :
            LET rule == config'[i]
                emitted == From(suggestions', origin', {i})
            IN  /\ emitted # <<>> => (TreeTrue(rule.conditions) /\ rule.weight > 0)
                /\ rule.weight <= 0 => emitted = <<>>
                /\ (i \notin errors' /\ TreeTrue(rule.conditions) /\ rule.weight > 0)
                    => Len(emitted) = Cardinality(Usable(rule))
                /\ \A k \in DOMAIN emitted :
                    /\ emitted[k].rule_id = rule.id
                    /\ emitted[k].weight = rule.weight]_vars

\* a call has returned a suggestion of one rule and none of a second rule
\* whose conditions hold and whose weight is 0
C19_Witness ==
    /\ Len(config) = 2
    /\ \E i \in DOMAIN config :
        /\ config[i].weight <= 0
        /\ TreeTrue(config[i].conditions)
    /\ \E i \in DOMAIN config :
        /\ config[i].weight > 0
        /\ Len(suggestions) = 1
        /\ suggestions[1].rule_id = config[i].id
        /\ suggestions[1].weight = config[i].weight

\* a ranks above b: greater weight, or equal weight and a higher priority
\* tier (high before medium before low)
RanksAbove(a, b) ==
    \/ a.weight > b.weight
    \/ /\ a.weight = b.weight
       /\ PriorityRank(a.priority) > PriorityRank(b.priority)

\* how many times x occurs in the list
Count(list, x) == Cardinality({k \in DOMAIN list : list[k] = x})

\* C20: the overlay's suggestion list has at most 5 suggestions, ordered by
\* descending weight and, among equal weights, high before medium before low,
\* and no suggestion left out ranks above one that is kept
C20_Ranked ==
    overlay.built =>
        /\ Len(overlay.suggestions) <= TopSuggestions
        /\ \A i, j \in DOMAIN overlay.suggestions :
            i < j => ~RanksAbove(overlay.suggestions[j], overlay.suggestions[i])
        /\ \A x \in OverlaySuggestions :
            Count(suggestions, x) > Count(overlay.suggestions, x)
                => \A k \in DOMAIN overlay.suggestions :
                    ~RanksAbove(x, overlay.suggestions[k])

\* C21: for every configuration on which ConfigurationValidator.validate
\* returns no errors, evaluate_rules never takes the 'template not found'
\* branch of _generate_suggestion
C21_ValidatedTemplatesResolve ==
    (config # <<>> /\ Validate(config) = {}) => not_found = {}

\* the hours a persona lives when the default is 24 whatever the mapper says
TtlOrDay(row) == IF row.ttl_hours # Null THEN row.ttl_hours ELSE DefaultTtlHours

\* the answers about a stored persona agree with its expires_at: before it
\* the persona is served and listed, after it it is 410 Gone and omitted
ServedUntilExpiry ==
    \A id \in DOMAIN personas :
        LET row == personas[id]
            answer == persona_response
        IN  /\ (answer.op = "get_persona" /\ answer.id = id) =>
                  /\ answer.at < row.expires_at => answer.status = 200
                  /\ answer.at > row.expires_at => answer.status = 410
            /\ answer.op = "get_active" =>
                  /\ answer.at < row.expires_at => id \in answer.listed
                  /\ answer.at > row.expires_at => id \notin answer.listed

Marked(w) ==
    /\ pc[w] = "process"
    /\ queue'[held[w]].status \in {"done", "pending", "failed"}

\* a worker was cancelled in this step: it leaves a claim or a task by no
\* step of its own
Cancelled(w) ==
    /\ pc[w] \in {"claim", "process"}
    /\ pc'[w] = "stopped"
    /\ ~MarkFailedRaises(w)

\* what holds of every step once the shutdown event is set: a task being
\* processed leaves processing through mark_completed or mark_failed (or the
\* exception of a mark_failed that raises) unless the worker is cancelled,
\* and it is cancelled only after stop() and a wait of the whole timeout
RunsToItsMark ==
    [][\A w \in Stoppable :
          /\ (shutdown[w] /\ pc[w] = "process" /\ pc'[w] # "process") =>
                 Marked(w) \/ MarkFailedRaises(w) \/ Cancelled(w)
          /\ Cancelled(w) =>
                 shutdown[w] /\ ~is_running[w] /\ waited[w] = ShutdownTimeout]_vars

\* once the shutdown event is set the worker loop terminates
LoopTerminates ==
    \A w \in Stoppable : shutdown[w] ~> (pc[w] = "stopped" /\ ~is_running[w])

\* C23 as stated: once the shutdown event is set the worker makes no further
\* dequeue_next call, a task being processed runs to its mark, the loop
\* terminates, and the worker is cancelled only after the 10 s wait
C23_NoDequeueAfterShutdown ==
    /\ [][\A w \in Stoppable : shutdown[w] => ~DequeueCall(w)]_vars
    /\ RunsToItsMark
    /\ LoopTerminates

\* C23: once the shutdown event is set the worker enters no further loop
\* iteration; it makes a dequeue_next call only if the signal arrived between
\* the loop condition and that call; a task being processed runs to its
\* mark_completed/mark_failed, the loop then terminates with is_running false,
\* and the worker is cancelled only after stop() and the 10 s wait
C23_NoIterationAfterShutdown ==
    /\ [][\A w \in Stoppable :
             shutdown[w] =>
                 /\ ~(pc[w] = "poll" /\ pc'[w] = "enter")
                 /\ DequeueCall(w) => at_shutdown[w] = "enter"]_vars
    /\ RunsToItsMark
    /\ LoopTerminates

\* the shutdown event was set while a task was being processed, the task got
\* its mark_completed and the loop has terminated
C23_Witness ==
    \E w \in Stoppable :
        /\ shutdown[w] /\ at_shutdown[w] = "process"
        /\ pc[w] = "stopped" /\ ~is_running[w]
        /\ \E t \in TaskIds : Exists(t) /\ queue[t].status = "done"

\* the worker has extracted the traits of the scenario's work session for a
\* person whose Mindscape has neither trait yet
ScenarioMerge ==
    /\ proc_pc[1] = "write"
    /\ new_traits[1] = ExtractTraits(Observation("work_session", "", 90, 10, 5, 0, ""))
    /\ ~Has(mindscape.traits, "work.focus_duration")
    /\ ~Has(mindscape.traits, "current_state.energy_level")

\* the stored Mindscape holds work.focus_duration = 90 and
\* current_state.energy_level = high
ScenarioStored(row) ==
    /\ row.exists
    /\ row.traits["work.focus_duration"].value = Num(90, 1)
    /\ row.traits["current_state.energy_level"].value = Str("high")

\* C24: after the worker processes the work session the Mindscape is at
\* version N+1 and holds work.focus_duration = 90 and
\* current_state.energy_level = high; a rule evaluation at a morning hour over
\* that stored Mindscape finds all[time_check morning, trait_check
\* current_state.energy_level equals high] true and emits its suggestion, the
\* parameter from_trait work.focus_duration resolving to 90
C24_EndToEnd ==
    [][/\ (ScenarioMerge /\ Upsert(1)) =>
            /\ mindscape'.version = mindscape.version + 1
            /\ ScenarioStored(mindscape')
       /\ ( /\ ScenarioStored(mindscape)
            /\ current_hour >= 5 /\ current_hour < 12
            /\ evaluate_stored(<<MorningEnergyRule>>) ) =>
            /\ Len(suggestions') = 1
            /\ suggestions'[1].rule_id = "morning_energy"
            /\ ResolveParameter("work.focus_duration", mindscape.traits) = Num(90, 1)]_vars

\* the feedback keys of a stored trait
FeedbackState(trait_data) ==
    <<trait_data.weight, trait_data.last_adjusted, trait_data.adjustment_reason>>

\* C25: when a delta is merged into an existing trait, the trait's weight,
\* last_adjusted and adjustment_reason are the same after the merge as before
\* it (the row not having been written since the processor read it)
C25_MergeKeepsFeedbackState ==
    [][\A p \in Procs :
          (readv[p] = mindscape.version /\ MergeUpsert(p)) =>
              \A name \in FeedbackPaths :
                  (new_traits[p][name] # NoTrait /\ mindscape.traits[name] # NoWeighted) =>
                      FeedbackState(mindscape'.traits[name])
                          = FeedbackState(mindscape.traits[name])]_vars

\* C27: under any interleaving of trait merges and weight adjustments every
\* committed write leaves the version strictly greater than the version stored
\* immediately before it, and the number of committed writes equals the total
\* version increase
C27_VersionCountsWrites ==
    /\ [][mindscape' # mindscape => mindscape'.version > mindscape.version]_vars
    /\ [](mindscape.version = merges + adjusts)

\* C26: processing a negative feedback event for suggestion type T changes
\* only the weights of traits mapped from T, changes each of them at most once
\* (one multiplication by 0.8), and adjusts nothing when the negative count of
\* T itself is below the threshold, whatever the counts of other types
C26_OwnTypeOnly ==
    [][\A feedback \in FeedbackInputs, up \in BOOLEAN :
        (/\ submitted' = submitted + 1
         /\ Classify(feedback) = "negative"
         /\ TraitMapping(feedback.suggestion_type) # {}
         /\ Submit(feedback, up))
        => /\ \A name \in DOMAIN mindscape.traits :
                /\ name \notin TraitMapping(feedback.suggestion_type) =>
                       mindscape'.traits[name].weight = mindscape.traits[name].weight
                /\ mindscape'.traits[name].weight \in
                       {mindscape.traits[name].weight,
                        NewWeight(WeightOf(mindscape.traits[name]), NEGATIVE_ADJUSTMENT, up)}
           /\ TypeCount(negatives', feedback.suggestion_type) < NEGATIVE_FEEDBACK_THRESHOLD =>
                  mindscape'.traits = mindscape.traits]_vars

\* the queries of the narrative checks in a condition tree
RECURSIVE NarrativeQueries(_)
NarrativeQueries(conditions) ==
    CASE conditions.type = "single" ->
            IF conditions.check.kind = "narrative_check" THEN {conditions.check.value}
            ELSE {}
      [] OTHER ->
            UNION {NarrativeQueries(conditions.conditions[k]) :
                       k \in DOMAIN conditions.conditions}

\* the contexts the matching narrative checks of a rule can leave: the first
\* three matches of a query that has matches
OwnContexts(rule) ==
    {SubSeq(Search(query), 1, Min(3, Len(Search(query)))) :
        query \in {q \in NarrativeQueries(rule.conditions) : Search(q) # <<>>}}

\* C28: the narrative_context of a suggestion holds only matches (at most 3)
\* of a narrative_check in the condition tree of the suggestion's own rule,
\* and a suggestion of a rule without a matching narrative_check carries no
\* narrative_context, whatever was evaluated before
C28_OwnNarrativeContext ==
    \A k \in DOMAIN suggestions :
        LET rule == config[origin[k]]
            context == suggestions[k].narrative_context
        IN  IF OwnContexts(rule) = {} THEN context = NoAttribute
            ELSE context \in OwnContexts(rule)

\* C29 (Spec): mapper versions.  After any sequence of create, upload, update,
\* deprecate and _create_new_version, every config_id has at most one ACTIVE
\* version and no version number twice, and persona generation's lookup of
\* the active configuration never meets more than one row.
C29_OneActiveVersion ==
    /\ \A c \in ConfigIds : Cardinality(ActiveVersions(mappers, c)) <= 1
    /\ \A m, n \in mappers :
        (m.config_id = n.config_id /\ m.version = n.version) => m = n
    /\ lookup # "MultipleResultsFound"

\* C30 (Spec): outbox atomicity.  Outside a create_observation call that is
\* between its two commits, every stored observation has a process_observation
\* task that names it, whether the call returned or failed.
C30_ObservationHasTask ==
    \A r \in Requests :
        (obs_pc[r] # "created" /\ r \in observations) => r \in outbox

====
